---- MODULE Spec2Model ----
(***************************************************************************)
(* CardBrick: the rich-text layout engine of src/ui/font.rs, the card      *)
(* layouts of src/scenes/studying, the scheduler of src/scheduler.rs, the  *)
(* deck selection scene and the deck loader thread of src/deck/loader.rs.  *)
(*                                                                         *)
(* FontManager::layout_text_binary is modelled one loop iteration at a     *)
(* time.  A text is a sequence of characters; a character has a byte       *)
(* length (UTF-8) and a pixel width.  An Option<String> is a sequence of   *)
(* zero or one texts.  The font backend (SDL_ttf) is a width function that *)
(* depends on the style flags set on the font; any of its calls may fail.  *)
(***************************************************************************)
EXTENDS Integers, Sequences, FiniteSets, TLC

\* ------------------------------------------------------------------ bounds
\* Longest span sequence handed to one layout call.
MaxSpans == 3
\* Longest span sequence in a session of two layout calls with drawing.
MaxSessionSpans == 2
\* Largest max_width handed to layout_text_binary.
MaxWidth == 2
\* Longest span sequence of a layout that is drawn.
MaxDrawnSpans == 1
\* Largest distance of draw_layout's y from the top of the viewport.
MaxOriginY == 2
\* Largest viewport height.
MaxViewportHeight == 2
\* Longest span sequence of a note field.
MaxFieldSpans == 1
\* Largest number of cards in a deck.
MaxCards == 5
\* Largest number of lapses a card adds in a session.
MaxLapses == 1
\* Largest number of cards in a deck studied with the ruby key in use.
MaxSceneCards == 2
\* Longest span sequence of a call with annotated (ruby) spans.
MaxRubySpans == 2
\* Largest number of decks in the deck list.
MaxDecks == 4
\* Largest max_scroll of a card, in steps of scroll_speed.
MaxScrollSteps == 1
\* Number of line entries the lines vector can hold before its allocation
\* fails.  No layout that returns comes near it: a returning call pushes at
\* most one line per character, per span and per newline of its input.
LineCapacity == 12

\* ------------------------------------------------------- the font backend
\* The characters of the model: an ASCII letter, a CJK character, a newline.
Chars == {"a", "k", "\n"}

\* UTF-8 length of a character.
ByteLen(c) == IF c = "k" THEN 3 ELSE 1

\* Advance of a character in the regular style.
CharWidth(c) == IF c = "a" THEN 1 ELSE IF c = "k" THEN 2 ELSE 0

\* FontStyle flags.
BOLD == "BOLD"
ITALIC == "ITALIC"
StyleFlags == {BOLD, ITALIC}

\* self.font.height()
FontHeight == 2

RECURSIVE SumWidth(_)
SumWidth(text) ==
    IF text = <<>> THEN 0 ELSE CharWidth(Head(text)) + SumWidth(Tail(text))

\* self.font.size_of(text) with `style` set on the font: emboldening widens
\* every glyph by one pixel.
size_of(text, style) ==
    SumWidth(text) + (IF BOLD \in style THEN Len(text) ELSE 0)

\* ------------------------------------------------------------------ spans
None == <<>>
Some(x) == <<x>>

TextSpan(text, ruby_text, is_bold, is_italic, is_ruby_base, new_text_block, is_newline) ==
    [text |-> text, new_text_block |-> new_text_block, is_bold |-> is_bold,
     is_italic |-> is_italic, is_ruby_base |-> is_ruby_base,
     ruby_text |-> ruby_text, is_newline |-> is_newline]

\* TextSpan::default() with a text.
Plain(text) == TextSpan(text, None, FALSE, FALSE, FALSE, FALSE, FALSE)

PlainTexts == {<<>>, <<"a">>, <<"a", "k">>, <<"\n">>, <<"\n", "\n">>}

\* The span values layout calls are given.
SpanValues ==
    {Plain(t) : t \in PlainTexts}
    \cup {[Plain(<<"a", "a">>) EXCEPT !.is_bold = TRUE],
          [Plain(<<"a">>) EXCEPT !.is_italic = TRUE],
          [Plain(<<"a">>) EXCEPT !.new_text_block = TRUE],
          [Plain(<<>>) EXCEPT !.is_newline = TRUE]}
    \cup {[Plain(b) EXCEPT !.is_ruby_base = TRUE, !.ruby_text = Some(<<"a", "a">>)] :
              b \in {<<"a">>, <<"k">>}}

RECURSIVE SeqsUpTo(_, _)
SeqsUpTo(S, n) ==
    IF n = 0 THEN {<<>>}
    ELSE LET shorter == SeqsUpTo(S, n - 1)
         IN  shorter \cup {Append(s, x) : s \in {t \in shorter : Len(t) = n - 1}, x \in S}

\* -------------------------------------------------------------- variables
VARIABLES
    spans,               \* argument: the input spans
    max_width,           \* argument
    use_ruby,            \* argument
    fontStyle,           \* self.font's style flags
    pc,                  \* "idle", "stageB", "returned" (Ok), "failed" (Err),
                         \* "panicked", "aborted", "loaded"
    processed_spans,     \* the VecDeque work queue
    lines,               \* lines built so far
    current_line_spans,
    current_line_width,
    result,              \* None, or Some(TextLayout) once the call returned Ok
    first,               \* None, or Some(TextLayout) of the previous call
    draw_call,           \* None, or Some(the last draw_layout call and what it drew)
    fields,              \* the spans of the note's front and back fields
    card_layouts,        \* the six cached card layouts of StudyingState
    load_call,           \* the layout call load_card_layouts is at (0: not in it)
    scheduler,           \* the Sm2Scheduler
    current_card,        \* StudyingState::current_card
    is_answer_revealed,  \* StudyingState::is_answer_revealed
    is_done,             \* StudyingState::is_done
    show_ruby_text,      \* StudyingState::show_ruby_text
    hint_layout,         \* StudyingState::hint_layout
    done_layout,         \* StudyingState::done_layout
    game_state,          \* AppState::game_state: the scene and its state
    loader,              \* the thread running load_apkg: its position and result
    channel,             \* the mpsc channel of the loader's messages
    scroll_offset        \* StudyingState::scroll_offset

vars == <<spans, max_width, use_ruby, fontStyle, pc, processed_spans, lines,
          current_line_spans, current_line_width, result, first, draw_call,
          fields, card_layouts, load_call, scheduler, current_card,
          is_answer_revealed, is_done, show_ruby_text, hint_layout, done_layout,
          game_state, loader, channel, scroll_offset>>

\* What a layout call does not touch: the canvas, the scene and the scheduler.
Others == <<draw_call, fields, card_layouts, load_call, scheduler, current_card,
            is_answer_revealed, is_done, show_ruby_text, hint_layout, done_layout,
            game_state, loader, channel, scroll_offset>>

\* --------------------------------------------------------- TextSpan helpers
\* The displayed text of a span when its ruby text is never looked at.
text_to_use_BaseOnly(span, ruby) == span.text

\* TextSpan::text_to_use
text_to_use(span, ruby) ==
    IF ruby
    THEN (IF span.ruby_text # None THEN span.ruby_text[1] ELSE span.text)
    ELSE span.text

\* text.chars().take(n).collect()
Take(text, n) == SubSeq(text, 1, n)

\* Byte offset of the character at index n (0-based), i.e. the byte length
\* of the first n characters.
RECURSIVE ByteOffset(_, _)
ByteOffset(text, n) ==
    IF n = 0 THEN 0 ELSE ByteOffset(text, n - 1) + ByteLen(text[n])

\* str::split_at(mid) panics unless mid is a character boundary within the text.
IsCharBoundary(text, mid) ==
    \E n \in 0..Len(text) : ByteOffset(text, n) = mid

\* The number of characters before byte offset mid (mid is a boundary).
CharsBefore(text, mid) ==
    CHOOSE n \in 0..Len(text) : ByteOffset(text, n) = mid

\* str::split('\n'): the parts between newline characters, empty parts included.
RECURSIVE SplitNewline(_, _)
SplitNewline(text, part) ==
    IF text = <<>> THEN <<part>>
    ELSE IF Head(text) = "\n" THEN <<part>> \o SplitNewline(Tail(text), <<>>)
    ELSE SplitNewline(Tail(text), Append(part, Head(text)))

\* ------------------------------------------------------- the font manager
\* FontManager::size_of_text_with_style: the width measured with the span's
\* flags or-ed into the style the font currently has.
size_of_text_with_style(text, is_bold, is_italic) ==
    size_of(text, fontStyle
                  \cup (IF is_bold THEN {BOLD} ELSE {})
                  \cup (IF is_italic THEN {ITALIC} ELSE {}))

\* The style flags after a measurement that returns early on an error,
\* before the reset.
StyleAfterSizeOf_LeakOnError(original_style, is_bold, is_italic, failed) ==
    LET current_style == original_style
                         \cup (IF is_bold THEN {BOLD} ELSE {})
                         \cup (IF is_italic THEN {ITALIC} ELSE {})
    IN  IF failed THEN current_style ELSE original_style

\* FontManager::size_of_text_with_style, its effect on the font: the style is
\* set to the or-ed flags, size_of runs and its result (a size or an error)
\* is kept, the style is reset, the result is returned.
StyleAfterSizeOf(original_style, is_bold, is_italic, failed) ==
    LET current_style == original_style
                         \cup (IF is_bold THEN {BOLD} ELSE {})
                         \cup (IF is_italic THEN {ITALIC} ELSE {})
        styleDuringSizeOf == current_style
    IN  original_style

\* A search that stops at the first prefix found to fit: one character.
SearchLoop_StopsAtFirstFit(text, span, available_width, low, high, best_fit_char_index) ==
    IF text # <<>>
       /\ size_of_text_with_style(Take(text, 1), span.is_bold, span.is_italic) <= available_width
    THEN 1
    ELSE 0

\* The binary search loop of find_split_index.
RECURSIVE SearchLoop(_, _, _, _, _, _)
SearchLoop(text, span, available_width, low, high, best_fit_char_index) ==
    IF low > high THEN best_fit_char_index
    ELSE LET mid == low + (high - low) \div 2
         IN  IF mid = 0
             THEN SearchLoop(text, span, available_width, mid + 1, high, best_fit_char_index)
             ELSE IF size_of_text_with_style(Take(text, mid), span.is_bold, span.is_italic)
                        <= available_width
                  THEN SearchLoop(text, span, available_width, mid + 1, high, mid)
                  ELSE SearchLoop(text, span, available_width, low, mid - 1, best_fit_char_index)

\* FontManager::find_split_index: the byte index, in the displayed text, of
\* the character after the longest fitting prefix (0 when there is none).
find_split_index(span, available_width, ruby) ==
    LET text == text_to_use(span, ruby)
        best == SearchLoop(text, span, available_width, 0, Len(text), 0)
    IN  IF best < Len(text) THEN ByteOffset(text, best) ELSE 0

\* Stage 1 for one span with the newline span emitted only after a part that
\* has text, so that blank lines collapse.
RECURSIVE PartsToSpans_SkipsBlank(_, _)
PartsToSpans_SkipsBlank(span, parts) ==
    IF parts = <<>> THEN <<>>
    ELSE (IF Head(parts) # <<>>
          THEN <<[span EXCEPT !.text = Head(parts), !.is_newline = FALSE]>>
               \o (IF Tail(parts) # <<>>
                   THEN <<[span EXCEPT !.text = <<>>, !.is_newline = TRUE]>>
                   ELSE <<>>)
          ELSE <<>>)
         \o PartsToSpans_SkipsBlank(span, Tail(parts))

\* Stage 1 for one span: its text split on newlines, a text span per
\* non-empty part and a newline span between parts.
RECURSIVE PartsToSpans(_, _)
PartsToSpans(span, parts) ==
    IF parts = <<>> THEN <<>>
    ELSE (IF Head(parts) # <<>>
          THEN <<[span EXCEPT !.text = Head(parts), !.is_newline = FALSE]>>
          ELSE <<>>)
         \o (IF Tail(parts) # <<>>
             THEN <<[span EXCEPT !.text = <<>>, !.is_newline = TRUE]>>
             ELSE <<>>)
         \o PartsToSpans(span, Tail(parts))

ExpandSpan(span) == PartsToSpans(span, SplitNewline(span.text, <<>>))

\* Stage 1: the work queue for the input spans.
RECURSIVE Stage1(_)
Stage1(ss) ==
    IF ss = <<>> THEN <<>> ELSE ExpandSpan(Head(ss)) \o Stage1(Tail(ss))

\* The tail of the call without the line an empty layout is given.
FinalLines_NoEmptyLine(ls, current) ==
    IF current # <<>> THEN Append(ls, current) ELSE ls

\* The tail of the call: the last line, the one line of an empty layout.
FinalLines(ls, current) ==
    LET withLast == IF current # <<>> THEN Append(ls, current) ELSE ls
    IN  IF withLast = <<>> THEN <<(<<>>)>> ELSE withLast

\* line_height * lines.len()
TotalHeight(ls) == FontHeight * Len(ls)

\* The layout with its height taken before the last line was added.
TextLayout_StaleHeight(ls) ==
    [lines |-> ls, total_height |-> TotalHeight(lines), scroll_offset |-> 0]

\* Ok(TextLayout { lines, total_height, scroll_offset: 0 })
TextLayout(ls) ==
    [lines |-> ls, total_height |-> TotalHeight(ls), scroll_offset |-> 0]

\* ------------------------------------------------------------------ Init
\* The scheduler of a session that studies no deck.
NoScheduler == [cards |-> <<>>]

Widths == 0..MaxWidth

\* A font manager as constructed and the arguments of its first call.
FontIdle(inputs) ==
    /\ spans \in inputs
    /\ max_width \in Widths
    /\ use_ruby \in BOOLEAN
    /\ fontStyle = {}
    /\ pc = "idle"
    /\ processed_spans = <<>>
    /\ lines = <<>>
    /\ current_line_spans = <<>>
    /\ current_line_width = 0
    /\ result = None
    /\ first = None
    /\ draw_call = None

\* No deck is studied.
NoStudy ==
    /\ scheduler = NoScheduler
    /\ current_card = None
    /\ is_done = FALSE

\* No card is loaded.
NoCard ==
    /\ fields = <<>>
    /\ card_layouts = <<>>
    /\ load_call = 0
    /\ is_answer_revealed = FALSE

\* let scroll_speed = 30
scroll_speed == 30

\* StudyingState::new: the ruby key is up, no hint and no deck-complete
\* layout is cached.
NoScene ==
    /\ show_ruby_text = FALSE
    /\ hint_layout = None
    /\ done_layout = None
    /\ scroll_offset = 0

\* The studying scene is shown: no deck is being selected, no loader thread
\* runs and no channel is open.
NoLoader == [pc |-> "none", result |-> "Ok"]
NoChannel == [sent |-> <<>>, received |-> 0, rx_alive |-> FALSE]
NoMenu ==
    /\ game_state = [scene |-> "Studying"]
    /\ loader = NoLoader
    /\ channel = NoChannel

InitWith(inputs) ==
    /\ FontIdle(inputs)
    /\ NoCard
    /\ NoStudy
    /\ NoScene
    /\ NoMenu

Init == InitWith(SeqsUpTo(SpanValues, MaxSpans))

SessionInit == InitWith(SeqsUpTo(SpanValues, MaxSessionSpans))

\* --------------------------------------------------------------- actions
\* layout_text_binary(the_spans, width, ruby): the call and Stage 1.
Call(the_spans, width, ruby) ==
    /\ pc = "idle"
    /\ pc' = "stageB"
    /\ spans' = the_spans
    /\ max_width' = width
    /\ use_ruby' = ruby
    /\ processed_spans' = Stage1(the_spans)
    /\ lines' = <<>>
    /\ current_line_spans' = <<>>
    /\ current_line_width' = 0
    /\ result' = None
    /\ UNCHANGED <<fontStyle, first>>

\* A call with the chosen arguments.
LayoutTextBinary ==
    /\ Call(spans, max_width, use_ruby)
    /\ UNCHANGED Others

Span == Head(processed_spans)
\* The space left with a margin of one pixel kept free.
SpaceLeft_KeepsMargin ==
    IF max_width >= current_line_width + 1 THEN max_width - current_line_width - 1 ELSE 0

\* max_width.saturating_sub(current_line_width)
SpaceLeft == IF max_width >= current_line_width THEN max_width - current_line_width ELSE 0
SpanWidth == size_of_text_with_style(text_to_use(Span, use_ruby), Span.is_bold, Span.is_italic)
SplitByteIndex == find_split_index(Span, SpaceLeft, use_ruby)

Args == <<spans, max_width, use_ruby, first>>

\* The call returned Ok(layout).
Returned == pc = "returned"
Layout == result[1]

\* The font after the measurement calls of one iteration, all successful.
Measured == fontStyle' = StyleAfterSizeOf(fontStyle, Span.is_bold, Span.is_italic, FALSE)

\* A push that leaves out a line without spans.
PushLine_SkipsEmptyLine ==
    /\ Len(lines) < LineCapacity
    /\ lines' = IF current_line_spans = <<>> THEN lines ELSE Append(lines, current_line_spans)
    /\ current_line_spans' = <<>>
    /\ current_line_width' = 0

\* lines.push(current_line_spans) and the reset that follows it.
PushLine ==
    /\ Len(lines) < LineCapacity
    /\ lines' = Append(lines, current_line_spans)
    /\ current_line_spans' = <<>>
    /\ current_line_width' = 0

\* A newline span of the queue ends the current line.
StageBNewline ==
    /\ pc = "stageB" /\ processed_spans # <<>>
    /\ Span.is_newline
    /\ PushLine
    /\ processed_spans' = Tail(processed_spans)
    /\ UNCHANGED <<pc, result, fontStyle>> /\ UNCHANGED Args /\ UNCHANGED Others

\* The whole span fits on the current line.
StageBFits ==
    /\ pc = "stageB" /\ processed_spans # <<>>
    /\ ~Span.is_newline
    /\ SpanWidth <= SpaceLeft
    /\ current_line_spans' = Append(current_line_spans, Span)
    /\ current_line_width' = current_line_width + SpanWidth
    /\ processed_spans' = Tail(processed_spans)
    /\ Measured
    /\ UNCHANGED <<pc, lines, result>> /\ UNCHANGED Args /\ UNCHANGED Others

\* A prefix fits: the span is split at the byte index, the prefix goes on
\* the current line, the remainder back to the front of the queue.
StageBSplit ==
    /\ pc = "stageB" /\ processed_spans # <<>>
    /\ ~Span.is_newline
    /\ SpanWidth > SpaceLeft
    /\ SplitByteIndex > 0
    /\ IsCharBoundary(Span.text, SplitByteIndex)
    /\ Len(lines) < LineCapacity
    /\ LET n == CharsBefore(Span.text, SplitByteIndex)
           fit_span == [Span EXCEPT !.text = SubSeq(Span.text, 1, n)]
           remaining == [Span EXCEPT !.text = SubSeq(Span.text, n + 1, Len(Span.text))]
       IN  /\ lines' = Append(lines, Append(current_line_spans, fit_span))
           /\ processed_spans' = <<remaining>> \o Tail(processed_spans)
    /\ current_line_spans' = <<>>
    /\ current_line_width' = 0
    /\ Measured
    /\ UNCHANGED <<pc, result>> /\ UNCHANGED Args /\ UNCHANGED Others

\* span.text.split_at(split_byte_index) panics: the index is past the end
\* of the text or inside a character.
StageBSplitPanics ==
    /\ pc = "stageB" /\ processed_spans # <<>>
    /\ ~Span.is_newline
    /\ SpanWidth > SpaceLeft
    /\ SplitByteIndex > 0
    /\ ~IsCharBoundary(Span.text, SplitByteIndex)
    /\ pc' = "panicked"
    /\ Measured
    /\ UNCHANGED <<processed_spans, lines, current_line_spans, current_line_width, result>>
    /\ UNCHANGED Args /\ UNCHANGED Others

\* No character fits: the span goes back unchanged and the line is ended.
StageBNoFit ==
    /\ pc = "stageB" /\ processed_spans # <<>>
    /\ ~Span.is_newline
    /\ SpanWidth > SpaceLeft
    /\ SplitByteIndex = 0
    /\ PushLine
    /\ Measured
    /\ UNCHANGED <<pc, processed_spans, result>> /\ UNCHANGED Args /\ UNCHANGED Others

\* The measurement of the span's displayed text fails: the `?` returns the
\* error, the lines built so far are dropped.
StageBMeasureFails ==
    /\ pc = "stageB" /\ processed_spans # <<>>
    /\ ~Span.is_newline
    /\ pc' = "failed"
    /\ result' = None
    /\ fontStyle' = StyleAfterSizeOf(fontStyle, Span.is_bold, Span.is_italic, TRUE)
    /\ UNCHANGED <<processed_spans, lines, current_line_spans, current_line_width>>
    /\ UNCHANGED Args /\ UNCHANGED Others

\* The span does not fit and a measurement of find_split_index fails: the
\* error goes through both `?`.
StageBSearchFails ==
    /\ pc = "stageB" /\ processed_spans # <<>>
    /\ ~Span.is_newline
    /\ SpanWidth > SpaceLeft
    /\ pc' = "failed"
    /\ result' = None
    /\ fontStyle' = StyleAfterSizeOf(StyleAfterSizeOf(fontStyle, Span.is_bold, Span.is_italic, FALSE),
                                     Span.is_bold, Span.is_italic, TRUE)
    /\ UNCHANGED <<processed_spans, lines, current_line_spans, current_line_width>>
    /\ UNCHANGED Args /\ UNCHANGED Others

\* lines.push when the vector cannot grow: the allocation failure aborts
\* the process.
StageBOutOfMemory ==
    /\ pc = "stageB" /\ processed_spans # <<>>
    /\ Span.is_newline \/ SpanWidth > SpaceLeft
    /\ ~(~Span.is_newline /\ SplitByteIndex > 0 /\ ~IsCharBoundary(Span.text, SplitByteIndex))
    /\ Len(lines) >= LineCapacity
    /\ pc' = "aborted"
    /\ UNCHANGED <<processed_spans, lines, current_line_spans, current_line_width, result,
                   fontStyle>>
    /\ UNCHANGED Args /\ UNCHANGED Others

\* The queue is empty: the last line, the height, Ok(TextLayout).
LayoutReturns ==
    /\ pc = "stageB" /\ processed_spans = <<>>
    /\ pc' = "returned"
    /\ result' = Some(TextLayout(FinalLines(lines, current_line_spans)))
    /\ UNCHANGED <<processed_spans, lines, current_line_spans, current_line_width, fontStyle>>
    /\ UNCHANGED Args /\ UNCHANGED Others

Next ==
    \/ LayoutTextBinary
    \/ StageBNewline
    \/ StageBFits
    \/ StageBSplit
    \/ StageBSplitPanics
    \/ StageBNoFit
    \/ StageBMeasureFails
    \/ StageBSearchFails
    \/ StageBOutOfMemory
    \/ LayoutReturns

Spec == Init /\ [][Next]_vars

\* The loop runs on: a call that has started keeps taking steps.
FairSpec == Init /\ [][Next]_vars /\ WF_vars(Next)
\* ------------------------------------------------- a session of two calls
\* FontManager::draw_text_span_segment, its effect on the font.
StyleAfterDraw(original_style, is_empty, is_bold, is_italic, failed) ==
    LET current_style == original_style
                         \cup (IF is_bold THEN {BOLD} ELSE {})
                         \cup (IF is_italic THEN {ITALIC} ELSE {})
    IN  IF is_empty THEN original_style
        ELSE IF failed THEN current_style
        ELSE original_style

\* FontManager::draw_text_span_segment on a segment of any cached layout: an
\* empty text returns at once; otherwise the flags are or-ed into the font's
\* style, and the style is reset only when rendering, texture creation and
\* the copy all succeed.
DrawTextSpanSegment ==
    /\ pc \in {"idle", "returned"}
    /\ \E is_empty \in BOOLEAN, is_bold \in BOOLEAN, is_italic \in BOOLEAN, failed \in BOOLEAN :
          fontStyle' = StyleAfterDraw(fontStyle, is_empty, is_bold, is_italic, failed)
    /\ UNCHANGED <<spans, max_width, use_ruby, pc, processed_spans, lines,
                   current_line_spans, current_line_width, result, first>>
    /\ UNCHANGED Others

\* The caller keeps the layout and later asks for the same layout again.
CallAgain ==
    /\ pc = "returned" /\ first = None
    /\ first' = result
    /\ pc' = "idle"
    /\ UNCHANGED <<spans, max_width, use_ruby, fontStyle, processed_spans, lines,
                   current_line_spans, current_line_width, result>>
    /\ UNCHANGED Others

SessionNext ==
    \/ Next
    \/ DrawTextSpanSegment
    \/ CallAgain

SessionSpec == SessionInit /\ [][SessionNext]_vars

\* ------------------------------------------------------ drawing a layout
\* The text draw_layout draws for a span.
text_to_draw(span, show_ruby) ==
    IF show_ruby /\ span.is_ruby_base
    THEN (IF span.ruby_text # None THEN span.ruby_text[1] ELSE span.text)
    ELSE span.text

\* FontManager::draw_text_span_segment within a draw_layout call.  d is the
\* call so far: the font's style, the number of render calls, the segments
\* copied to the canvas, the width of the last segment, Ok or Err.  The
\* render call number fail_at fails (none when fail_at is 0).
draw_text_span_segment(d, text, x, y, is_bold, is_italic, fail_at) ==
    IF text = <<>> THEN [d EXCEPT !.text_w = 0]
    ELSE LET failed == d.renders + 1 = fail_at
             drawn_style == d.style
                            \cup (IF is_bold THEN {BOLD} ELSE {})
                            \cup (IF is_italic THEN {ITALIC} ELSE {})
         IN  [d EXCEPT
                !.style = StyleAfterDraw(d.style, FALSE, is_bold, is_italic, failed),
                !.renders = @ + 1,
                !.result = IF failed THEN "Err" ELSE "Ok",
                !.text_w = IF failed THEN 0 ELSE size_of(text, drawn_style),
                !.segments = IF failed THEN @
                             ELSE Append(@, [text |-> text, x |-> x, y |-> y,
                                             style |-> drawn_style])]

\* The inner loop of draw_layout: the spans of one line, left to right; the
\* `?` leaves the loop at the first segment that fails.
RECURSIVE DrawSpans(_, _, _, _, _, _)
DrawSpans(d, line_spans, current_x, current_y, show_ruby, fail_at) ==
    IF line_spans = <<>> THEN d
    ELSE LET span == Head(line_spans)
             after == draw_text_span_segment(d, text_to_draw(span, show_ruby), current_x,
                                             current_y, span.is_bold, span.is_italic, fail_at)
         IN  IF after.result = "Err" THEN after
             ELSE DrawSpans(after, Tail(line_spans), current_x + after.text_w, current_y,
                            show_ruby, fail_at)

\* A culling test that keeps only the lines that lie wholly inside the
\* viewport.
Visible_WhollyInside(current_y, viewport_height) ==
    current_y >= 0 /\ current_y + FontHeight <= viewport_height

\* The culling test of draw_layout.
Visible(current_y, viewport_height) ==
    current_y > -FontHeight /\ current_y < viewport_height

\* The outer loop of draw_layout: line i at current_y, drawn when visible;
\* the cursor advances by the line height either way.
RECURSIVE DrawLines(_, _, _, _, _, _, _, _)
DrawLines(d, layout_lines, i, x, current_y, viewport_height, show_ruby, fail_at) ==
    IF layout_lines = <<>> THEN d
    ELSE LET after ==
                 IF Visible(current_y, viewport_height)
                 THEN DrawSpans([d EXCEPT !.lines_drawn = Append(@, [line |-> i, y |-> current_y])],
                                Head(layout_lines), x, current_y, show_ruby, fail_at)
                 ELSE d
         IN  IF after.result = "Err" THEN after
             ELSE DrawLines(after, Tail(layout_lines), i + 1, x, current_y + FontHeight,
                            viewport_height, show_ruby, fail_at)

\* FontManager::draw_layout on `layout` at (x, y).
draw_layout(style, layout, x, y, viewport_height, show_ruby, fail_at) ==
    DrawLines([style |-> style, renders |-> 0, segments |-> <<>>, lines_drawn |-> <<>>,
               text_w |-> 0, result |-> "Ok"],
              layout.lines, 1, x, y - layout.scroll_offset, viewport_height, show_ruby, fail_at)

RECURSIVE CountSpans(_)
CountSpans(layout_lines) ==
    IF layout_lines = <<>> THEN 0 ELSE Len(Head(layout_lines)) + CountSpans(Tail(layout_lines))

OriginYs == (0 - MaxOriginY)..MaxOriginY
ViewportHeights == 1..MaxViewportHeight

\* A frame draws the layout the call returned: draw_layout, with any one
\* of its render calls failing or none.
DrawLayout ==
    /\ pc = "returned"
    /\ \E y \in OriginYs, viewport_height \in ViewportHeights, show_ruby \in BOOLEAN,
          fail_at \in 0..CountSpans(Layout.lines) :
          LET d == draw_layout(fontStyle, Layout, 0, y, viewport_height, show_ruby, fail_at)
          IN  /\ fontStyle' = d.style
              /\ draw_call' = Some([layout |-> Layout, y |-> y,
                                    viewport_height |-> viewport_height,
                                    show_ruby |-> show_ruby, style_before |-> fontStyle,
                                    result |-> d.result, lines_drawn |-> d.lines_drawn,
                                    segments |-> d.segments])
    /\ UNCHANGED <<spans, max_width, use_ruby, pc, processed_spans, lines,
                   current_line_spans, current_line_width, result, first>>
    /\ UNCHANGED <<game_state, loader, channel, scroll_offset>>
    /\ UNCHANGED <<fields, card_layouts, load_call, scheduler, current_card,
                   is_answer_revealed, is_done, show_ruby_text, hint_layout, done_layout>>

\* The span values of the layouts that are drawn: plain, three lines,
\* bold, ruby.
DrawnSpanValues ==
    {Plain(<<"a">>), Plain(<<"a", "\n", "a", "\n", "a">>),
     [Plain(<<"a", "a">>) EXCEPT !.is_bold = TRUE],
     [Plain(<<"a">>) EXCEPT !.is_ruby_base = TRUE, !.ruby_text = Some(<<"a", "a">>)]}

DrawInit == InitWith(SeqsUpTo(DrawnSpanValues, MaxDrawnSpans))

DrawNext ==
    \/ Next
    \/ DrawLayout

DrawSpec == DrawInit /\ [][DrawNext]_vars

\* ------------------------------------------ calls with annotated spans
\* The span values of an annotated field: a text with a break, a text to
\* wrap, ruby spans as parse_html_to_spans leaves them (the ruby text is the
\* joined text of the <rt> children, a <br> among them included), and a span
\* that has a ruby text without being marked as ruby base.
RubySpanValues ==
    {Plain(<<"a", "\n", "a">>), Plain(<<"a", "k">>),
     [Plain(<<"a">>) EXCEPT !.is_ruby_base = TRUE, !.ruby_text = Some(<<"a", "\n", "a">>)],
     [Plain(<<"k">>) EXCEPT !.is_ruby_base = TRUE, !.ruby_text = Some(<<"a", "a">>)],
     [Plain(<<"a">>) EXCEPT !.ruby_text = Some(<<"a", "a">>)]}

RubyInit == InitWith(SeqsUpTo(RubySpanValues, MaxRubySpans))

\* Annotated spans are laid out and the layout is drawn.
RubySpec == RubyInit /\ [][DrawNext]_vars
\* ------------------------------------------------- the layouts of a card
\* The six assignments of load_card_layouts, in order: front_layout_default,
\* small_front_layout_default, back_layout_default, front_layout_ruby,
\* small_front_layout_ruby, back_layout_ruby.
CardLayoutCalls == 1..6

\* The field a call lays out: 1 the front, 2 the back.
FieldOf(call) == IF call \in {3, 6} THEN 2 ELSE 1

\* The use_ruby argument of a call.
RubyOf(call) == call > 3

\* A layout cached for the card shown before.
StaleLayout == TextLayout(<<(<<Plain(<<"k", "k">>)>>)>>)

\* The hint text and the deck-complete text are fixed and laid out at a
\* fixed width: a cached layout of one of them is represented by its text
\* and the use_ruby argument of the layout_text_binary call that made it.
HintLayout(ruby) == [text |-> "hint", use_ruby |-> ruby]
DoneLayout == [text |-> "Deck Complete!", use_ruby |-> FALSE]

\* The span values of note fields: plain, a hard break, bold, ruby.
FieldSpanValues ==
    {Plain(<<"a">>), Plain(<<"\n">>),
     [Plain(<<"a", "a">>) EXCEPT !.is_bold = TRUE],
     [Plain(<<"a">>) EXCEPT !.is_ruby_base = TRUE, !.ruby_text = Some(<<"a", "a">>)]}

\* load_card_layouts is entered for a card, with the answer of the previous
\* card revealed and its layouts cached.  fields is what get_note(note_id)
\* gives: the parsed front and back field of the note, or None when the
\* deck has no note with the card's note_id.  font and small_font are two
\* FontManagers over the same backend.
LoadInit ==
    /\ FontIdle({<<>>})
    /\ use_ruby = FALSE
    /\ NoStudy
    /\ fields \in (SeqsUpTo(FieldSpanValues, MaxFieldSpans)
                       \X SeqsUpTo(FieldSpanValues, MaxFieldSpans))
                  \cup {None}
    /\ card_layouts = [call \in CardLayoutCalls |-> Some(StaleLayout)]
    /\ load_call = 1
    /\ is_answer_revealed = TRUE
    /\ show_ruby_text = FALSE
    /\ hint_layout = Some(HintLayout(FALSE))
    /\ done_layout = None
    /\ scroll_offset \in {0, scroll_speed}
    /\ NoMenu

\* The next layout_text_binary call of load_card_layouts; the first one
\* follows the reset of the reveal flag and of the hint layout.
LoadCardLayoutsCall ==
    /\ load_call \in CardLayoutCalls
    /\ fields # None
    /\ Call(fields[FieldOf(load_call)], max_width, RubyOf(load_call))
    /\ is_answer_revealed' = FALSE
    /\ scroll_offset' = 0
    /\ hint_layout' = None
    /\ UNCHANGED <<game_state, loader, channel>>
    /\ UNCHANGED <<draw_call, fields, card_layouts, load_call, scheduler, current_card, is_done,
                   show_ruby_text, done_layout>>

\* get_note finds no note: the reveal flag and the hint layout are reset,
\* the `if let` body is skipped and load_card_layouts returns.
LoadCardLayoutsNoNote ==
    /\ load_call = 1 /\ pc = "idle"
    /\ fields = None
    /\ is_answer_revealed' = FALSE
    /\ scroll_offset' = 0
    /\ hint_layout' = None
    /\ pc' = "loaded"
    /\ load_call' = 7
    /\ UNCHANGED <<spans, max_width, use_ruby, fontStyle, processed_spans, lines,
                   current_line_spans, current_line_width, result, first>>
    /\ UNCHANGED <<game_state, loader, channel>>
    /\ UNCHANGED <<draw_call, fields, card_layouts, scheduler, current_card, is_done,
                   show_ruby_text, done_layout>>

\* What the assignment stores when an error keeps the layout cached before.
Ok_KeepCached(call_result, cached) ==
    IF pc = "failed" THEN cached ELSE call_result

\* Result::ok(): Some(layout) for Ok(layout), None for Err.
Ok(call_result, cached) ==
    IF pc = "failed" THEN None ELSE call_result

\* The call returned: state.<layout> = <call>.ok(), and on to the next call.
StoreLayout ==
    /\ load_call \in CardLayoutCalls
    /\ pc \in {"returned", "failed"}
    /\ card_layouts' = [card_layouts EXCEPT ![load_call] = Ok(result, @)]
    /\ load_call' = load_call + 1
    /\ pc' = IF load_call < 6 THEN "idle" ELSE "loaded"
    /\ UNCHANGED <<spans, max_width, use_ruby, fontStyle, processed_spans, lines,
                   current_line_spans, current_line_width, result, first>>
    /\ UNCHANGED <<game_state, loader, channel, scroll_offset>>
    /\ UNCHANGED <<draw_call, fields, scheduler, current_card, is_answer_revealed, is_done,
                   show_ruby_text, hint_layout, done_layout>>

\* The ruby key is pressed or released, and draw_studying_scene draws the
\* loaded card, its answer hidden: the front layout of the ruby mode shown
\* is drawn if it is present; no session is studied here, so there is no
\* progress bar.
DrawStudyingScene ==
    /\ pc = "loaded"
    /\ ~is_answer_revealed
    /\ show_ruby_text' \in BOOLEAN
    /\ \E fail_at \in 0..1 :
          LET layout_to_draw == IF show_ruby_text' THEN card_layouts[4] ELSE card_layouts[1]
          IN  IF layout_to_draw # None
              THEN LET d == draw_layout(fontStyle, layout_to_draw[1], 0, 0,
                                        MaxViewportHeight, show_ruby_text', fail_at)
                   IN  /\ fontStyle' = d.style
                       /\ draw_call' = Some([show_ruby |-> show_ruby_text',
                                             style_before |-> fontStyle,
                                             result |-> d.result,
                                             lines_drawn |-> d.lines_drawn,
                                             segments |-> d.segments])
              ELSE /\ fontStyle' = fontStyle
                   /\ draw_call' = Some([show_ruby |-> show_ruby_text',
                                         style_before |-> fontStyle,
                                         result |-> "Ok",
                                         lines_drawn |-> <<>>,
                                         segments |-> <<>>])
    /\ UNCHANGED <<spans, max_width, use_ruby, pc, processed_spans, lines,
                   current_line_spans, current_line_width, result, first>>
    /\ UNCHANGED <<game_state, loader, channel, scroll_offset>>
    /\ UNCHANGED <<fields, card_layouts, load_call, scheduler, current_card,
                   is_answer_revealed, is_done, hint_layout, done_layout>>

LoadNext ==
    \/ LoadCardLayoutsCall
    \/ LoadCardLayoutsNoNote
    \/ StageBNewline
    \/ StageBFits
    \/ StageBSplit
    \/ StageBSplitPanics
    \/ StageBNoFit
    \/ StageBMeasureFails
    \/ StageBSearchFails
    \/ StageBOutOfMemory
    \/ LayoutReturns
    \/ StoreLayout
    \/ DrawStudyingScene

LoadSpec == LoadInit /\ [][LoadNext]_vars

\* ---------------------------------------------------------- the scheduler
Ratings == {"Again", "Hard", "Good", "Easy"}

\* The fields of a card as loaded from the deck: the cards with an even id
\* are new, those with an odd id have been reviewed and have lapsed.
LoadedFields(id) ==
    IF id % 2 = 0
    THEN [interval |-> 0, ease_factor |-> 2500, lapses |-> 0]
    ELSE [interval |-> 10, ease_factor |-> 1400, lapses |-> 3]

Card(id) ==
    [id |-> id, note_id |-> id, due |-> 0, interval |-> LoadedFields(id).interval,
     ease_factor |-> LoadedFields(id).ease_factor, lapses |-> LoadedFields(id).lapses]

\* u32::saturating_sub, usize::saturating_sub
saturating_sub(a, b) == IF a >= b THEN a - b ELSE 0

\* Ord::max
Max(a, b) == IF a >= b THEN a ELSE b

\* (x as f32 * 1.2).round() as u32
RoundTimes12(x) == (12 * x + 5) \div 10

\* Vec::insert(index, element)
Insert(vec, index, element) ==
    SubSeq(vec, 1, index) \o <<element>> \o SubSeq(vec, index + 1, Len(vec))

\* Vec::retain(|&id| id != card_id)
Retain(vec, card_id) == SelectSeq(vec, LAMBDA id : id # card_id)

\* Vec::contains
Contains(vec, card_id) == \E i \in 1..Len(vec) : vec[i] = card_id

\* The ascending and the descending order of the ids 0 .. n-1.
Ascending(n) == [i \in 1..n |-> i - 1]
Descending(n) == [i \in 1..n |-> n - i]

\* Sm2Scheduler::new for a deck of n cards with ids 0 .. n-1 and the queue
\* in the given order.
new(n, review_queue) ==
    [cards |-> [id \in 0..(n - 1) |-> Card(id)],
     review_queue |-> review_queue,
     session_total |-> Len(review_queue),
     session_reviews_complete |-> 0,
     hard_cards_this_session |-> <<>>,
     last_answer |-> None]

\* Sm2Scheduler::next_card: the scheduler after the call and what it returns.
next_card(self) ==
    IF self.review_queue = <<>>
    THEN [self |-> self, ret |-> None]
    ELSE LET id == self.review_queue[Len(self.review_queue)]
         IN  [self |-> [self EXCEPT !.review_queue = SubSeq(@, 1, Len(@) - 1)],
              ret |-> IF id \in DOMAIN self.cards THEN Some(self.cards[id]) ELSE None]

\* A card put at the other end of the queue, behind all the others.
add_card_to_front_ServedLast(self, card_id) ==
    [self EXCEPT !.review_queue = <<card_id>> \o @]

\* Sm2Scheduler::add_card_to_front
add_card_to_front(self, card_id) ==
    [self EXCEPT !.review_queue = Append(@, card_id)]

\* A cooldown one card shorter.
cooldown_distance_OneLess(lapses) == Max(saturating_sub(4, lapses), 2)

\* 5_u32.saturating_sub(card.lapses).max(2)
cooldown_distance(lapses) == Max(saturating_sub(5, lapses), 2)

\* answer_card, Rating::Again: the lapse, and the card back in the queue.
AnswerAgain(self, card_id) ==
    LET card == self.cards[card_id]
        lapsed == [card EXCEPT !.lapses = @ + 1,
                               !.ease_factor = Max(@ - 200, 1300),
                               !.interval = 0]
        insertion_point == saturating_sub(Len(self.review_queue),
                                          cooldown_distance(lapsed.lapses))
    IN  [self EXCEPT !.cards[card_id] = lapsed,
                     !.review_queue = Insert(@, insertion_point, lapsed.id)]

\* answer_card, Hard, Good or Easy, with an Easy answer left uncounted.
AnswerPassed_EasyUncounted(self, card_id, rating) ==
    IF rating = "Hard"
    THEN LET card == self.cards[card_id]
         IN  [self EXCEPT
                !.session_reviews_complete = @ + 1,
                !.hard_cards_this_session =
                    IF Contains(@, card_id) THEN @ ELSE Append(@, card_id),
                !.cards[card_id] =
                    [card EXCEPT !.ease_factor = Max(@ - 150, 1300),
                                 !.interval = Max(RoundTimes12(@), @ + 1)]]
    ELSE IF rating = "Good" THEN [self EXCEPT !.session_reviews_complete = @ + 1]
    ELSE self

\* answer_card, Hard, Good or Easy: the review counts; Hard records the
\* card and changes its ease and interval.
AnswerPassed(self, card_id, rating) ==
    LET counted == [self EXCEPT !.session_reviews_complete = @ + 1]
        card == self.cards[card_id]
    IN  IF rating = "Hard"
        THEN [counted EXCEPT
                !.hard_cards_this_session =
                    IF Contains(@, card_id) THEN @ ELSE Append(@, card_id),
                !.cards[card_id] =
                    [card EXCEPT !.ease_factor = Max(@ - 150, 1300),
                                 !.interval = Max(RoundTimes12(@), @ + 1)]]
        ELSE counted

\* answer_card with a lapsed card counted as one more card of the session.
answer_card_AgainGrowsTotal(self, card_id, rating) ==
    LET noted == [self EXCEPT !.last_answer = Some(<<card_id, rating, self.cards[card_id]>>)]
    IN  IF rating = "Again"
        THEN [AnswerAgain(noted, card_id) EXCEPT !.session_total = @ + 1]
        ELSE AnswerPassed(noted, card_id, rating)

\* Sm2Scheduler::answer_card (card_id is the id of a card of the deck).
answer_card(self, card_id, rating) ==
    LET noted == [self EXCEPT !.last_answer = Some(<<card_id, rating, self.cards[card_id]>>)]
    IN  IF rating = "Again"
        THEN AnswerAgain(noted, card_id)
        ELSE AnswerPassed(noted, card_id, rating)

\* rewind_last_answer with the card put back but the counters left alone.
rewind_last_answer_CardOnly(self) ==
    IF self.last_answer = None THEN [self |-> self, ret |-> None]
    ELSE LET card_id == self.last_answer[1][1]
             original_card_state == self.last_answer[1][3]
         IN  [self |-> [self EXCEPT !.last_answer = None,
                                    !.review_queue = Retain(@, card_id),
                                    !.cards[card_id] = original_card_state],
              ret |-> Some(original_card_state)]

\* rewind_last_answer that leaves the answer in place to be rewound again.
rewind_last_answer_KeepsAnswer(self) ==
    IF self.last_answer = None THEN [self |-> self, ret |-> None]
    ELSE LET card_id == self.last_answer[1][1]
             rating == self.last_answer[1][2]
             original_card_state == self.last_answer[1][3]
             rewound ==
                 [self EXCEPT
                    !.review_queue = Retain(@, card_id),
                    !.session_reviews_complete =
                        IF rating # "Again" THEN saturating_sub(@, 1) ELSE @,
                    !.hard_cards_this_session =
                        IF rating = "Hard" THEN Retain(@, card_id) ELSE @,
                    !.cards[card_id] = original_card_state]
         IN  [self |-> rewound, ret |-> Some(rewound.cards[card_id])]

\* rewind_last_answer with the rewound card left where the answer put it in
\* the queue.
rewind_last_answer_KeepsQueue(self) ==
    IF self.last_answer = None THEN [self |-> self, ret |-> None]
    ELSE LET card_id == self.last_answer[1][1]
             rating == self.last_answer[1][2]
             original_card_state == self.last_answer[1][3]
             rewound ==
                 [self EXCEPT
                    !.last_answer = None,
                    !.session_reviews_complete =
                        IF rating # "Again" THEN saturating_sub(@, 1) ELSE @,
                    !.hard_cards_this_session =
                        IF rating = "Hard" THEN Retain(@, card_id) ELSE @,
                    !.cards[card_id] = original_card_state]
         IN  [self |-> rewound, ret |-> Some(rewound.cards[card_id])]

\* Sm2Scheduler::rewind_last_answer: the scheduler after the call and what
\* it returns.
rewind_last_answer(self) ==
    IF self.last_answer = None THEN [self |-> self, ret |-> None]
    ELSE LET card_id == self.last_answer[1][1]
             rating == self.last_answer[1][2]
             original_card_state == self.last_answer[1][3]
             rewound ==
                 [self EXCEPT
                    !.last_answer = None,
                    !.review_queue = Retain(@, card_id),
                    !.session_reviews_complete =
                        IF rating # "Again" THEN saturating_sub(@, 1) ELSE @,
                    !.hard_cards_this_session =
                        IF rating = "Hard" THEN Retain(@, card_id) ELSE @,
                    !.cards[card_id] = original_card_state]
         IN  [self |-> rewound, ret |-> Some(rewound.cards[card_id])]

\* ------------------------------------------- the studying scene's handlers
\* load_next_card that leaves the scene of the card before as it is.
load_next_card_KeepsScene(self) ==
    LET next == next_card(self)
    IN  /\ scheduler' = next.self
        /\ current_card' = next.ret
        /\ UNCHANGED <<is_answer_revealed, scroll_offset, hint_layout>>
        /\ is_done' = (IF next.ret # None THEN is_done ELSE TRUE)
        /\ done_layout' \in (IF next.ret # None THEN {done_layout}
                             ELSE {Some(DoneLayout), None})

\* load_next_card on the scheduler `self`: its next card becomes the current
\* card, the answer is hidden and the hint layout dropped
\* (load_card_layouts; the six layouts of the card are the subject of
\* LoadSpec), or there is none, the session is done and the deck-complete
\* layout is made with use_ruby = false, absent if the call fails.
load_next_card(self) ==
    LET next == next_card(self)
    IN  /\ scheduler' = next.self
        /\ current_card' = next.ret
        /\ is_answer_revealed' = (IF next.ret # None THEN FALSE ELSE is_answer_revealed)
        /\ scroll_offset' = (IF next.ret # None THEN 0 ELSE scroll_offset)
        /\ hint_layout' = (IF next.ret # None THEN None ELSE hint_layout)
        /\ is_done' = (IF next.ret # None THEN is_done ELSE TRUE)
        /\ done_layout' \in (IF next.ret # None THEN {done_layout}
                             ELSE {Some(DoneLayout), None})

\* The decks of a session: Sm2Scheduler::new and StudyingState::new.
\* sort_unstable leaves the ids ascending; of the orders shuffle can leave,
\* the ascending and the descending one are taken.
StudyInitWith(deck_sizes) ==
    /\ FontIdle({<<>>})
    /\ max_width = MaxWidth /\ use_ruby = FALSE
    /\ NoCard
    /\ \E n \in deck_sizes :
          scheduler \in {new(n, Ascending(n)), new(n, Descending(n))}
    /\ current_card = None
    /\ is_done = FALSE
    /\ NoScene
    /\ NoMenu

\* The loader delivered a deck.
StudyInit == StudyInitWith(0..MaxCards)

\* What the scheduler's handlers do not touch.
NotStudy == <<spans, max_width, use_ruby, fontStyle, pc, processed_spans, lines,
              current_line_spans, current_line_width, result, first, draw_call,
              fields, card_layouts, load_call, game_state, loader, channel>>

\* update_state: the first load_next_card of the session.
StartStudying ==
    /\ current_card = None /\ ~is_done
    /\ load_next_card(scheduler)
    /\ UNCHANGED show_ruby_text
    /\ UNCHANGED NotStudy

\* handle_studying_input, a direction key while the answer is hidden: the
\* answer is revealed and the hint is laid out in the ruby mode shown.  (If
\* that call fails, the error ends the run loop and no frame follows.)
RevealAnswer ==
    /\ ~(current_card = None /\ ~is_done)
    /\ ~is_answer_revealed
    /\ is_answer_revealed' = TRUE
    /\ hint_layout' = Some(HintLayout(show_ruby_text))
    /\ UNCHANGED <<scheduler, current_card, is_done, show_ruby_text, done_layout,
                   scroll_offset>>
    /\ UNCHANGED NotStudy

\* The face buttons of the controller and the letter keys of the keyboard.
FaceButtons == {"A", "B", "X", "Y"}

\* handle_studying_input, the rating each face button's arm answers with.
ButtonRating(button) ==
    CASE button = "A" -> "Good"
      [] button = "B" -> "Good"
      [] button = "X" -> "Good"
      [] button = "Y" -> "Good"

\* handle_studying_input, the rating of a letter key.
KeyRating(keycode) ==
    CASE keycode = "B" -> "Again"
      [] keycode = "Y" -> "Hard"
      [] keycode = "A" -> "Good"
      [] keycode = "X" -> "Easy"

\* The hint shown with the answer: "A:Good B:Again X:Easy Y:Hard".
HintedRating(button) ==
    CASE button = "A" -> "Good"
      [] button = "B" -> "Again"
      [] button = "X" -> "Easy"
      [] button = "Y" -> "Hard"

\* The scheduler after the card on screen, if there is one, is answered.
Answered(rating) ==
    IF current_card # None
    THEN answer_card(scheduler, current_card[1].id, rating)
    ELSE scheduler

\* A rating arm of handle_studying_input: with the answer shown, the current
\* card is answered and the next card is loaded.
Rate(rating) ==
    /\ is_answer_revealed
    /\ (current_card # None /\ rating = "Again")
          => scheduler.cards[current_card[1].id].lapses
                 < LoadedFields(current_card[1].id).lapses + MaxLapses
    /\ load_next_card(Answered(rating))
    /\ UNCHANGED show_ruby_text
    /\ UNCHANGED NotStudy

\* handle_studying_input, a face button of the controller pressed.
RateButton(button) == Rate(ButtonRating(button))

\* handle_studying_input, a letter key of the keyboard pressed.
RateKey(keycode) == Rate(KeyRating(keycode))

\* handle_studying_input, a rating input while the answer is shown.
RateCard ==
    \/ \E button \in FaceButtons : RateButton(button)
    \/ \E keycode \in FaceButtons : RateKey(keycode)

\* handle_studying_input, the rewind key: the current card is held at the
\* front of the queue; the last answer is rewound and its card shown
\* (load_card_layouts), or there is none and the next card is loaded.
Rewind ==
    /\ ~(current_card = None /\ ~is_done)
    /\ LET held == IF current_card # None
                    THEN add_card_to_front(scheduler, current_card[1].id)
                    ELSE scheduler
           rewound == rewind_last_answer(held)
       IN  IF rewound.ret # None
           THEN /\ scheduler' = rewound.self
                /\ current_card' = rewound.ret
                /\ is_answer_revealed' = FALSE
                /\ scroll_offset' = 0
                /\ hint_layout' = None
                /\ UNCHANGED <<is_done, done_layout>>
           ELSE load_next_card(rewound.self)
    /\ UNCHANGED show_ruby_text
    /\ UNCHANGED NotStudy

StudyNext ==
    \/ StartStudying
    \/ RevealAnswer
    \/ RateCard
    \/ Rewind

StudySpec == StudyInit /\ [][StudyNext]_vars

\* --------------------------------------------- the studying scene's frames
\* handle_studying_input, the ruby key: pressed it shows the ruby texts,
\* released it hides them.
ToggleRuby ==
    /\ \E pressed \in BOOLEAN : show_ruby_text' = pressed
    /\ UNCHANGED <<scheduler, current_card, is_answer_revealed, is_done,
                   hint_layout, done_layout, scroll_offset>>
    /\ UNCHANGED NotStudy

\* handle_studying_input, Keycode::Up or Keycode::Down while the answer is
\* shown: the offset moves by scroll_speed between 0 and max_scroll, which
\* is what the heights of the card's small front and back layouts leave
\* over the viewport.
Scroll ==
    /\ is_answer_revealed
    /\ \E max_scroll \in {k * scroll_speed : k \in 0..MaxScrollSteps} :
          \/ scroll_offset' = Max(scroll_offset - scroll_speed, 0)
          \/ scroll_offset' = (IF scroll_offset + scroll_speed <= max_scroll
                               THEN scroll_offset + scroll_speed ELSE max_scroll)
    /\ UNCHANGED <<scheduler, current_card, is_answer_revealed, is_done,
                   show_ruby_text, hint_layout, done_layout>>
    /\ UNCHANGED NotStudy

\* The card layout draw_studying_scene takes for each ruby mode: the front,
\* the small front and the back.
FrontCall(ruby) == IF ruby THEN 4 ELSE 1
SmallFrontCall(ruby) == IF ruby THEN 5 ELSE 2
BackCall(ruby) == IF ruby THEN 6 ELSE 3

\* draw_studying_scene: the draw_layout calls of one frame, each with the
\* use_ruby argument its layout was made with and the show_ruby argument it
\* is drawn with.  A card layout that is absent is skipped.
draw_studying_scene ==
    LET show_ruby == show_ruby_text
        Drawn(call) == [layout |-> call, use_ruby |-> RubyOf(call), show_ruby |-> show_ruby]
    IN  (IF ~is_answer_revealed
         THEN <<Drawn(FrontCall(show_ruby))>>
         ELSE <<Drawn(SmallFrontCall(show_ruby)), Drawn(BackCall(show_ruby))>>)
        \o (IF is_done /\ done_layout # None
            THEN <<[layout |-> done_layout[1].text, use_ruby |-> done_layout[1].use_ruby,
                    show_ruby |-> show_ruby]>>
            ELSE <<>>)
        \o (IF is_answer_revealed /\ hint_layout # None
            THEN <<[layout |-> hint_layout[1].text, use_ruby |-> hint_layout[1].use_ruby,
                    show_ruby |-> show_ruby]>>
            ELSE <<>>)

\* A session on a small deck with the ruby key in use.
SceneInit == StudyInitWith(0..MaxSceneCards)

SceneNext ==
    \/ StudyNext
    \/ ToggleRuby
    \/ Scroll

SceneSpec == SceneInit /\ [][SceneNext]_vars

\* ------------------------------------------------- the deck selection scene
\* The rows move_selection is told are visible.
VisibleRows == 3

\* DeckSelectionState::new for a list of `decks` decks, the decks 0 ..
\* decks-1, as the value of GameState::DeckSelection.
DeckSelectionState(decks) ==
    [scene |-> "DeckSelection", decks |-> decks, selected_index |-> 0,
     first_visible |-> 0]

\* GameState::Loading { rx, loading_layout, progress, deck_id_to_load }
Loading(progress, deck_id_to_load) ==
    [scene |-> "Loading", progress |-> progress, deck_id_to_load |-> deck_id_to_load]

\* Ord::clamp: None stands for its panic when min > max.
clamp(x, min, max) ==
    IF min > max THEN None
    ELSE Some(IF x < min THEN min ELSE IF x > max THEN max ELSE x)

\* DeckSelectionState::move_selection: the state after the call, None when
\* the call panics.
move_selection(self, delta, total, visible) ==
    LET new_index == clamp(self.selected_index + delta, 0, total - 1)
    IN  IF new_index = None THEN None
        ELSE LET moved == [self EXCEPT !.selected_index = new_index[1]]
             IN  Some(IF moved.selected_index < moved.first_visible
                      THEN [moved EXCEPT !.first_visible = moved.selected_index]
                      ELSE IF moved.selected_index >= moved.first_visible + visible
                      THEN [moved EXCEPT !.first_visible = moved.selected_index - visible + 1]
                      ELSE moved)

\* What the deck selection scene and the loader do not touch.
NotMenu == <<spans, max_width, use_ruby, fontStyle, processed_spans, lines,
             current_line_spans, current_line_width, result, first, draw_call,
             fields, card_layouts, load_call, scheduler, current_card,
             is_answer_revealed, is_done, show_ruby_text, hint_layout, done_layout,
             scroll_offset>>

\* The run loop hands an event to handle_deck_selection_input.
InDeckSelection == pc = "idle" /\ game_state.scene = "DeckSelection"

\* Channel::all().play(..)?: the sound plays, or its error ends the run loop.
PlaySound == pc' \in {"idle", "failed"}

\* handle_deck_selection_input, DPadUp of the controller.
DPadUp ==
    /\ InDeckSelection
    /\ game_state' = [game_state EXCEPT !.selected_index = saturating_sub(@, 1)]
    /\ PlaySound
    /\ UNCHANGED <<loader, channel>> /\ UNCHANGED NotMenu

\* handle_deck_selection_input, DPadDown of the controller: with a deck in
\* the list the sound is played first, then the index moves.
DPadDown ==
    /\ InDeckSelection
    /\ game_state.decks # 0
    /\ PlaySound
    /\ game_state' =
          IF pc' = "idle"
          THEN [game_state EXCEPT
                  !.selected_index = IF @ + 1 <= game_state.decks - 1
                                     THEN @ + 1 ELSE game_state.decks - 1]
          ELSE game_state
    /\ UNCHANGED <<loader, channel>> /\ UNCHANGED NotMenu

\* handle_deck_selection_input, Keycode::Up.
KeycodeUp ==
    /\ InDeckSelection
    /\ LET moved == move_selection(game_state, -1, game_state.decks, VisibleRows)
       IN  IF moved = None
           THEN pc' = "panicked" /\ UNCHANGED game_state
           ELSE game_state' = moved[1] /\ PlaySound
    /\ UNCHANGED <<loader, channel>> /\ UNCHANGED NotMenu

\* handle_deck_selection_input, Keycode::Down with a deck in the list.
KeycodeDown ==
    /\ InDeckSelection
    /\ game_state.decks # 0
    /\ LET moved == move_selection(game_state, 1, game_state.decks, VisibleRows)
       IN  IF moved = None
           THEN pc' = "panicked" /\ UNCHANGED game_state
           ELSE game_state' = moved[1] /\ PlaySound
    /\ UNCHANGED <<loader, channel>> /\ UNCHANGED NotMenu

\* handle_deck_selection_input, the A button or Keycode::Return with a deck
\* in the list: decks[selected_index] is read (a panic when out of range),
\* the loader thread is spawned with the sender of a new channel, then the
\* loading layout is made and the sound played; if both succeed the scene
\* is Loading and holds the receiver, if not the error ends the run loop and
\* the receiver is dropped.
SelectDeck ==
    /\ InDeckSelection
    /\ game_state.decks # 0
    /\ IF game_state.selected_index >= game_state.decks
       THEN pc' = "panicked" /\ UNCHANGED <<game_state, loader, channel>>
       ELSE /\ loader' = [pc |-> "extract", result |-> "Ok"]
            /\ PlaySound
            /\ channel' = [sent |-> <<>>, received |-> 0, rx_alive |-> pc' = "idle"]
            /\ game_state' = IF pc' = "idle"
                             THEN Loading(0, game_state.selected_index)
                             ELSE game_state
    /\ UNCHANGED NotMenu

\* handle_deck_selection_input, the Back button or Keycode::Backspace.
BackToMainMenu ==
    /\ InDeckSelection
    /\ game_state' = [scene |-> "MainMenu"]
    /\ UNCHANGED <<pc, loader, channel>> /\ UNCHANGED NotMenu

\* ------------------------------------------------------- the deck loader
Progress(p) == [type |-> "Progress", progress |-> p]
Complete(r) == [type |-> "Complete", result |-> r]

\* The stages of load_apkg's closure, the progress (in percent) each reports
\* and the stage that follows: the database is extracted, the notes are
\* loaded, the cards are loaded.
LoaderStages == {"extract", "notes", "cards"}
StageProgress(stage) ==
    CASE stage = "extract" -> 25 [] stage = "notes" -> 75 [] stage = "cards" -> 100
NextStage(stage) ==
    CASE stage = "extract" -> "notes" [] stage = "notes" -> "cards"
      [] stage = "cards" -> "complete"

\* A failed stage whose error ends the thread at once.
AfterStage_ErrorEndsThread(ok, stage) ==
    IF ok THEN [pc |-> NextStage(stage), result |-> "Ok"]
    ELSE [pc |-> "finished", result |-> "Err"]

\* The loader after a stage: its `?` leaves the closure with the error, or
\* the next stage follows.
AfterStage(ok, stage) ==
    IF ok THEN [pc |-> NextStage(stage), result |-> "Ok"]
    ELSE [pc |-> "complete", result |-> "Err"]

\* tx.send(msg).unwrap() by the loader, which is then at `after`: the
\* message is queued, or the receiver is gone and the thread panics.
SendUnwrap(msg, after) ==
    IF channel.rx_alive
    THEN /\ channel' = [channel EXCEPT !.sent = Append(@, msg)]
         /\ loader' = after
    ELSE /\ loader' = [loader EXCEPT !.pc = "panicked"]
         /\ UNCHANGED channel

\* load_apkg, one stage of the closure: it fails, or it ends with the send
\* of its progress.
LoadApkgStage ==
    /\ loader.pc \in LoaderStages
    /\ \E ok \in BOOLEAN :
          IF ok
          THEN SendUnwrap(Progress(StageProgress(loader.pc)), AfterStage(TRUE, loader.pc))
          ELSE loader' = AfterStage(FALSE, loader.pc) /\ UNCHANGED channel
    /\ UNCHANGED <<pc, game_state>> /\ UNCHANGED NotMenu

\* load_apkg, the send of the final result.
LoadApkgComplete ==
    /\ loader.pc = "complete"
    /\ SendUnwrap(Complete(loader.result), [loader EXCEPT !.pc = "finished"])
    /\ UNCHANGED <<pc, game_state>> /\ UNCHANGED NotMenu

\* update_state in the Loading scene with a message waiting (try_recv): a
\* progress is noted; a deck starts the studying scene, unless the database
\* or the replay log cannot be opened and the error ends the run loop; an
\* error is shown.  Leaving the Loading scene drops the receiver.
UpdateState ==
    /\ pc = "idle" /\ game_state.scene = "Loading"
    /\ channel.received < Len(channel.sent)
    /\ LET msg == channel.sent[channel.received + 1]
           received == [channel EXCEPT !.received = @ + 1]
       IN  IF msg.type = "Progress"
           THEN /\ game_state' = [game_state EXCEPT !.progress = msg.progress]
                /\ channel' = received
                /\ UNCHANGED pc
           ELSE /\ channel' = [received EXCEPT !.rx_alive = FALSE]
                /\ IF msg.result = "Ok"
                   THEN /\ pc' \in {"idle", "failed"}
                        /\ game_state' = IF pc' = "idle" THEN [scene |-> "Studying"]
                                         ELSE [scene |-> "Error"]
                   ELSE game_state' = [scene |-> "Error"] /\ UNCHANGED pc
    /\ UNCHANGED loader /\ UNCHANGED NotMenu

\* run: a Quit event or Escape ends the run loop; the state is dropped and
\* with it, in the Loading scene, the receiver.
Quit ==
    /\ pc = "idle"
    /\ pc' = "quit"
    /\ channel' = [channel EXCEPT !.rx_alive = FALSE]
    /\ UNCHANGED <<game_state, loader>> /\ UNCHANGED NotMenu

\* The deck selection scene is entered with the decks found.
MenuInit ==
    /\ FontIdle({<<>>})
    /\ max_width = MaxWidth /\ use_ruby = FALSE
    /\ NoCard
    /\ NoStudy
    /\ NoScene
    /\ game_state \in {DeckSelectionState(decks) : decks \in 0..MaxDecks}
    /\ loader = NoLoader
    /\ channel = NoChannel

MenuNext ==
    \/ DPadUp
    \/ DPadDown
    \/ KeycodeUp
    \/ KeycodeDown
    \/ SelectDeck
    \/ BackToMainMenu
    \/ LoadApkgStage
    \/ LoadApkgComplete
    \/ UpdateState
    \/ Quit

MenuSpec == MenuInit /\ [][MenuNext]_vars

\* ================================================================ claims
\* What a reader of a layout sees: the displayed text of spans and lines, as
\* measured by the font in its current state.
Displayed(span) == text_to_use(span, use_ruby)

RECURSIVE LineText(_)
LineText(line) ==
    IF line = <<>> THEN <<>> ELSE Displayed(Head(line)) \o LineText(Tail(line))

RECURSIVE LineWidth(_)
LineWidth(line) ==
    IF line = <<>> THEN 0
    ELSE size_of_text_with_style(Displayed(Head(line)), Head(line).is_bold, Head(line).is_italic)
         + LineWidth(Tail(line))

RECURSIVE AllText(_)
AllText(ls) ==
    IF ls = <<>> THEN <<>> ELSE LineText(Head(ls)) \o AllText(Tail(ls))

RemoveNewlines(text) == SelectSeq(text, LAMBDA c : c # "\n")

\* The base texts of the input spans, one after the other.
RECURSIVE InputText(_)
InputText(ss) ==
    IF ss = <<>> THEN <<>> ELSE Head(ss).text \o InputText(Tail(ss))

\* The measured width of everything the input displays.
RECURSIVE InputWidth(_)
InputWidth(ss) ==
    IF ss = <<>> THEN 0
    ELSE size_of_text_with_style(RemoveNewlines(Displayed(Head(ss))),
                                 Head(ss).is_bold, Head(ss).is_italic)
         + InputWidth(Tail(ss))

\* ---------------------------------------------------------------- C1
\* C1: layout_text_binary terminates: for every span sequence, width and
\* ruby mode the Stage B loop is left after finitely many iterations (by
\* returning a layout or an error; a panic also leaves the loop and is the
\* subject of C12/C24).
\* The loop that does not end repeats StageBNoFit with the queue, the
\* current line and its width unchanged, pushing one empty line each time,
\* until the lines vector cannot grow.
C1_StageBLoopEnds == <>(pc \in {"returned", "failed", "panicked"})

\* ---------------------------------------------------------------- C2
\* One input span, without newlines, every displayed character of which
\* measures more than max_width.
OneOverWideSpan ==
    /\ Len(spans) = 1
    /\ Displayed(spans[1]) # <<>>
    /\ spans[1].text # <<>>
    /\ \A i \in 1..Len(spans[1].text) : spans[1].text[i] # "\n"
    /\ \A i \in 1..Len(Displayed(spans[1])) :
          size_of_text_with_style(<<Displayed(spans[1])[i]>>,
                                  spans[1].is_bold, spans[1].is_italic) > max_width

\* C2: when a single character is wider than max_width the layout still
\* completes and the character is force-placed alone: the first line holds
\* exactly one character and there are as many lines as characters.
C2_OverWideCharForcePlaced ==
    OneOverWideSpan =>
        /\ pc # "aborted"
        /\ lines # <<>> => Len(LineText(lines[1])) = 1
        /\ Returned => Len(Layout.lines) = Len(Displayed(spans[1]))

\* ---------------------------------------------------------------- C3
ForcedSingleChar(line) ==
    /\ Len(line) = 1
    /\ Len(Displayed(line[1])) = 1
    /\ LineWidth(line) > max_width

\* C3: width-fit: every line of a returned layout measures at most
\* max_width, except a line that is one forced over-wide character.
C3_WidthFit ==
    Returned =>
        \A i \in 1..Len(Layout.lines) :
            \/ LineWidth(Layout.lines[i]) <= max_width
            \/ ForcedSingleChar(Layout.lines[i])

\* ---------------------------------------------------------------- C4
RECURSIVE InputDisplayed(_)
InputDisplayed(ss) ==
    IF ss = <<>> THEN <<>> ELSE Displayed(Head(ss)) \o InputDisplayed(Tail(ss))

\* C4: content preservation: the displayed texts of the output, in order,
\* are the displayed texts of the input without the newline characters.
C4_ContentPreserved ==
    Returned => AllText(Layout.lines) = RemoveNewlines(InputDisplayed(spans))

\* ---------------------------------------------------------------- C5
\* C5: a returned layout has at least one line; input without any text gives
\* exactly one empty line; a non-empty current line left when the queue
\* drains is the last line.
C5_NonEmptyOutput ==
    Returned =>
        /\ Len(Layout.lines) >= 1
        /\ (\A i \in 1..Len(spans) : spans[i].text = <<>>) => Layout.lines = <<(<<>>)>>
        /\ current_line_spans # <<>> =>
              /\ Len(Layout.lines) = Len(lines) + 1
              /\ Layout.lines[Len(Layout.lines)] = current_line_spans

\* C5 witness: spans that carry no text were laid out as one empty line.
C5_Witness ==
    /\ Returned
    /\ Len(spans) >= 1
    /\ \A i \in 1..Len(spans) : spans[i].text = <<>>
    /\ Layout.lines = <<(<<>>)>>

\* ---------------------------------------------------------------- C6
\* C6: height consistency: total_height is the font's line height times the
\* number of lines, and scroll_offset is 0.
C6_HeightConsistency ==
    Returned =>
        /\ Layout.total_height = FontHeight * Len(Layout.lines)
        /\ Layout.scroll_offset = 0

\* C6 witness: a returned layout whose last line was added after the loop.
C6_Witness ==
    /\ Returned
    /\ Len(Layout.lines) >= 2
    /\ current_line_spans # <<>>

\* ---------------------------------------------------------------- C7
\* C7: determinism: a second call with the same spans, max_width and
\* use_ruby returns the layout the first call returned, whatever was drawn
\* in between.
C7_Deterministic ==
    (Returned /\ first # None) => result = first

\* ---------------------------------------------------------------- C8
\* The lines a text breaks into at its newline characters: a newline ends a
\* line, so the part after the last newline is a line only if it has text
\* (or is all there is).
HardBrokenLines(text) ==
    LET parts == SplitNewline(text, <<>>)
    IN  IF Len(parts) > 1 /\ parts[Len(parts)] = <<>>
        THEN SubSeq(parts, 1, Len(parts) - 1)
        ELSE parts

LineTexts(ls) == [i \in 1..Len(ls) |-> LineText(ls[i])]

NoWrapNeeded == ~use_ruby /\ InputWidth(spans) <= max_width

\* C8: every newline character yields exactly one line entry: when nothing
\* has to wrap, the lines are the parts of the input text between its
\* newline characters, so k adjacent newlines give k-1 blank lines.
C8_HardBreaks ==
    (Returned /\ NoWrapNeeded) =>
        LineTexts(Layout.lines) = HardBrokenLines(InputText(spans))

\* C8 witness: two adjacent newlines between two texts gave one blank line.
C8_Witness ==
    /\ Returned /\ NoWrapNeeded
    /\ InputText(spans) = <<"a", "\n", "\n", "a">>
    /\ LineTexts(Layout.lines) = <<(<<"a">>), <<>>, <<"a">>>>

\* ---------------------------------------------------------------- C9
IsNewlineMarker(span) == span.is_newline /\ span.text = <<>>

IsTextOnly(span) ==
    /\ ~span.is_newline
    /\ span.text # <<>>
    /\ \A i \in 1..Len(span.text) : span.text[i] # "\n"

\* C9: an input span that is a newline marker forces a line break: text A,
\* marker, text B, with room for both, gives exactly the lines [A] and [B].
C9_NewlineMarkerBreaks ==
    (/\ Returned
     /\ Len(spans) = 3
     /\ IsTextOnly(spans[1]) /\ IsNewlineMarker(spans[2]) /\ IsTextOnly(spans[3])
     /\ InputWidth(spans) <= max_width)
    => Layout.lines = <<(<<spans[1]>>), <<spans[3]>>>>

\* ---------------------------------------------------------------- C10
\* C10: a span with new_text_block starts on a fresh line: in no line does
\* it follow other spans.
C10_NewBlockStartsLine ==
    Returned =>
        \A i \in 1..Len(Layout.lines) :
            \A j \in 2..Len(Layout.lines[i]) : ~Layout.lines[i][j].new_text_block

\* ---------------------------------------------------------------- C11
\* The text a span is to display: the ruby text in ruby mode when there is
\* one, the base text otherwise.
DisplayText(span) ==
    IF use_ruby /\ span.ruby_text # None THEN span.ruby_text[1] ELSE span.text

RECURSIVE PlacedWidth(_)
PlacedWidth(line) ==
    IF line = <<>> THEN 0
    ELSE size_of(DisplayText(Head(line)),
                 fontStyle \cup (IF Head(line).is_bold THEN {BOLD} ELSE {})
                           \cup (IF Head(line).is_italic THEN {ITALIC} ELSE {}))
         + PlacedWidth(Tail(line))

\* C11: ruby substitution: the width the layout has measured for the spans
\* it placed on the current line is the width of their ruby texts when
\* use_ruby is set and they have one, of their base texts otherwise.
C11_RubySubstitution ==
    pc = "stageB" => current_line_width = PlacedWidth(current_line_spans)

\* C11 witness: in ruby mode a span with base "a" and ruby "aa" was placed
\* and counted with the width of "aa".
C11_Witness ==
    /\ pc = "stageB" /\ use_ruby
    /\ Len(current_line_spans) = 1
    /\ current_line_spans[1].text = <<"a">>
    /\ current_line_spans[1].ruby_text = Some(<<"a", "a">>)
    /\ current_line_width = 2

\* ---------------------------------------------------------------- C12
\* C12: a call ends with a complete layout or with an error and nothing
\* exposed; it never panics.
C12_CompleteOrError ==
    /\ pc # "panicked"
    /\ pc = "failed" => result = None
    /\ Returned => (result # None /\ processed_spans = <<>>)

\* ---------------------------------------------------------------- C13
\* C13: every step of a layout call that measures text, whether the
\* measurement gives a size or an error, leaves the font's style flags as
\* they were before the step.
C13_MeasureRestoresStyle ==
    [][(pc = "stageB" /\ processed_spans # <<>> /\ ~Head(processed_spans).is_newline)
         => fontStyle' = fontStyle]_vars

\* C13 witness: the measurement of a bold span failed and the font is back
\* in the regular style.
C13_Witness ==
    /\ pc = "failed"
    /\ Head(processed_spans).is_bold
    /\ fontStyle = {}

\* ---------------------------------------------------------------- C14
\* C14: after draw_layout returns, Ok or Err, the font's style flags are
\* what they were before the call.
C14_DrawRestoresStyle ==
    draw_call # None => fontStyle = draw_call[1].style_before

\* ---------------------------------------------------------------- C15
\* The y of line i (counted from 1) of the drawn layout.
LineY(call, i) == call.y - call.layout.scroll_offset + (i - 1) * FontHeight

\* The extent [y, y + line_height) meets the viewport [0, viewport_height).
Intersects(y, viewport_height) == y + FontHeight > 0 /\ y < viewport_height

\* C15: every drawn line i is at y - scroll_offset + i * line_height (i from
\* 0) and meets the viewport, the drawn lines are in layout order, and when
\* the call returns Ok every line that meets the viewport was drawn.
C15_CullingKeepsPositions ==
    draw_call # None =>
        LET call == draw_call[1]
            drawn == call.lines_drawn
        IN  /\ \A k \in 1..Len(drawn) :
                  /\ drawn[k].line \in 1..Len(call.layout.lines)
                  /\ drawn[k].y = LineY(call, drawn[k].line)
                  /\ Intersects(drawn[k].y, call.viewport_height)
                  /\ k > 1 => drawn[k - 1].line < drawn[k].line
            /\ call.result = "Ok" =>
                  \A i \in 1..Len(call.layout.lines) :
                      Intersects(LineY(call, i), call.viewport_height)
                          => \E k \in 1..Len(drawn) : drawn[k].line = i

\* C15 witness: the first line was culled above the viewport, the second
\* drawn at its own y, the third culled below.
C15_Witness ==
    /\ draw_call # None
    /\ draw_call[1].result = "Ok"
    /\ Len(draw_call[1].layout.lines) >= 3
    /\ draw_call[1].y = 0 - FontHeight
    /\ draw_call[1].viewport_height <= FontHeight
    /\ draw_call[1].lines_drawn = <<[line |-> 2, y |-> 0]>>

\* ---------------------------------------------------------------- C16
\* The scene was drawn and the front layout of the ruby mode shown is absent.
FrontAbsentDrawn ==
    /\ pc = "loaded" /\ draw_call # None
    /\ (IF draw_call[1].show_ruby THEN card_layouts[4] ELSE card_layouts[1]) = None

\* C16: when a layout call of load_card_layouts has ended, with a layout or
\* with an error, the next step assigns its cached layout (absent after an
\* error, the new layout otherwise), leaves the other five alone and goes on
\* to the next call, or ends load_card_layouts after the sixth; a scene
\* drawn with its front layout absent shows nothing and returns Ok.
C16_FailedLayoutIsAbsent ==
    [][/\ FrontAbsentDrawn' => (draw_call'[1].segments = <<>> /\ draw_call'[1].result = "Ok")
       /\ (load_call \in CardLayoutCalls /\ pc \in {"returned", "failed"}) =>
             /\ card_layouts'[load_call] = (IF pc = "failed" THEN None ELSE result)
             /\ \A other \in CardLayoutCalls \ {load_call} :
                   card_layouts'[other] = card_layouts[other]
             /\ load_call' = load_call + 1
             /\ pc' = (IF load_call < 6 THEN "idle" ELSE "loaded")
             /\ UNCHANGED draw_call]_vars

\* C16 witness: the first layout failed and is absent, the five after it
\* were computed, and the scene was drawn without the front.
C16_Witness ==
    /\ pc = "loaded"
    /\ draw_call # None /\ ~draw_call[1].show_ruby
    /\ card_layouts[1] = None
    /\ \A call \in 2..6 : card_layouts[call] # None /\ card_layouts[call] # Some(StaleLayout)

\* ---------------------------------------------------------------- C17
\* The scheduler as Sm2Scheduler::new left it: no card dealt yet.
NewScheduler == current_card = None /\ ~is_done

DeckIds == DOMAIN scheduler.cards

\* C17: total_session_cards is the number of cards of the deck in every
\* state of a session, a new scheduler has no review complete, and no
\* single next_card, answer_card, add_card_to_front or rewind_last_answer
\* changes total_session_cards.
C17_SessionTotalFixed ==
    /\ scheduler.session_total = Cardinality(DeckIds)
    /\ NewScheduler => scheduler.session_reviews_complete = 0
    /\ next_card(scheduler).self.session_total = scheduler.session_total
    /\ rewind_last_answer(scheduler).self.session_total = scheduler.session_total
    /\ \A id \in DeckIds :
          /\ add_card_to_front(scheduler, id).session_total = scheduler.session_total
          /\ \A rating \in Ratings :
                answer_card(scheduler, id, rating).session_total = scheduler.session_total

\* C17 witness: a session of several cards, lapses among them, is done.
C17_Witness ==
    /\ is_done
    /\ scheduler.session_total >= 2
    /\ scheduler.session_reviews_complete = scheduler.session_total
    /\ \E id \in DeckIds : scheduler.cards[id].lapses > LoadedFields(id).lapses

\* ---------------------------------------------------------------- C18
\* C18: answering the card on screen Hard, Good or Easy adds exactly 1 to
\* reviews_complete and leaves the review queue as it is; answering it
\* Again leaves reviews_complete and adds the card, once, to the queue.
C18_AnswerCounts ==
    current_card # None =>
        LET card_id == current_card[1].id
            again == answer_card(scheduler, card_id, "Again")
        IN  /\ \A rating \in {"Hard", "Good", "Easy"} :
                  LET passed == answer_card(scheduler, card_id, rating)
                  IN  /\ passed.session_reviews_complete
                            = scheduler.session_reviews_complete + 1
                      /\ passed.review_queue = scheduler.review_queue
            /\ again.session_reviews_complete = scheduler.session_reviews_complete
            /\ Contains(again.review_queue, card_id)
            /\ Len(again.review_queue) = Len(scheduler.review_queue) + 1
            /\ Retain(again.review_queue, card_id) = scheduler.review_queue

\* C18 witness: a card was answered Easy after others and a card is on
\* screen to be answered.
C18_Witness ==
    /\ current_card # None
    /\ scheduler.last_answer # None
    /\ scheduler.last_answer[1][2] = "Easy"
    /\ scheduler.session_reviews_complete >= 2

\* ---------------------------------------------------------------- C19
Min(a, b) == IF a <= b THEN a ELSE b

\* The number of next_card calls that return other cards before one
\* returns card_id (which is in the queue).
RECURSIVE OthersBefore(_, _)
OthersBefore(self, card_id) ==
    LET next == next_card(self)
    IN  IF next.ret = None \/ next.ret[1].id = card_id THEN 0
        ELSE 1 + OthersBefore(next.self, card_id)

\* C19: when the card on screen is answered Again, its lapse count becomes
\* L and the queue holds n cards, exactly min(max(5 - L, 2), n) calls of
\* next_card return other cards before next_card returns it.
C19_AgainCooldown ==
    current_card # None =>
        LET card_id == current_card[1].id
            again == answer_card(scheduler, card_id, "Again")
            L == again.cards[card_id].lapses
            n == Len(scheduler.review_queue)
        IN  /\ Contains(again.review_queue, card_id)
            /\ OthersBefore(again, card_id) = Min(Max(5 - L, 2), n)

\* C19 witness: a first lapse with four other cards in the queue: the card
\* went in behind all four, and the first of them is on screen.
C19_Witness ==
    /\ scheduler.last_answer # None
    /\ scheduler.last_answer[1][2] = "Again"
    /\ scheduler.cards[scheduler.last_answer[1][1]].lapses = 1
    /\ Len(scheduler.review_queue) = 4
    /\ scheduler.review_queue[1] = scheduler.last_answer[1][1]
    /\ current_card # None
    /\ current_card[1].id # scheduler.last_answer[1][1]

\* ---------------------------------------------------------------- C20
Count(vec, card_id) == Len(SelectSeq(vec, LAMBDA id : id = card_id))

\* What an answer of card_id changed is back as it was in `before`.
Undone(before, rewound, card_id) ==
    /\ rewound.ret = Some(before.cards[card_id])
    /\ rewound.self.session_reviews_complete = before.session_reviews_complete
    /\ rewound.self.hard_cards_this_session = before.hard_cards_this_session
    /\ rewound.self.cards[card_id] = before.cards[card_id]
    /\ Count(rewound.self.review_queue, card_id) = Count(before.review_queue, card_id)

\* C20: for every rating, rewind_last_answer after answer_card of the card
\* on screen returns the card as it was and puts reviews_complete, the
\* hard-cards list, the stored card and the queue's content for the card
\* back; so it does at once, and so it does the way the rewind key calls
\* it, after next_card and add_card_to_front of the card then on screen.
C20_RewindUndoesAnswer ==
    current_card # None =>
        \A rating \in Ratings :
            LET card_id == current_card[1].id
                answered == answer_card(scheduler, card_id, rating)
                next == next_card(answered)
                held == IF next.ret # None
                        THEN add_card_to_front(next.self, next.ret[1].id)
                        ELSE next.self
            IN  /\ Undone(scheduler, rewind_last_answer(answered), card_id)
                /\ Undone(scheduler, rewind_last_answer(held), card_id)

\* C20 witness: the last card's answer ended the session and was rewound:
\* the card is on screen again and no review is complete.
C20_Witness ==
    /\ is_done
    /\ current_card # None
    /\ scheduler.last_answer = None
    /\ scheduler.session_reviews_complete = 0
    /\ scheduler.session_total = 1

\* ---------------------------------------------------------------- C21
\* The rewind of the scheduler's test: the card on screen is held, the last
\* answer is rewound, the rewound card is put back and served, answered
\* with `rating`, and the next card is served.
RewindFlow(rating) ==
    LET h == current_card[1].id
        held == add_card_to_front(scheduler, h)
        rewound == rewind_last_answer(held)
        w == rewound.ret[1].id
        put_back == add_card_to_front(rewound.self, w)
        served == next_card(put_back)
        answered == answer_card(served.self, w, rating)
    IN  [h |-> h, w |-> w, rewound |-> rewound.ret, served |-> served.ret,
         after |-> next_card(answered).ret]

\* add_card_to_front makes the given card of the deck the next one served.
FrontIsServedNext ==
    \A id \in DeckIds :
        LET next == next_card(add_card_to_front(scheduler, id))
        IN  next.ret = Some(scheduler.cards[id]) /\ next.self = scheduler

\* C21: with a card h on screen and an answer to rewind, holding h, rewinding
\* and putting the rewound card w back makes next_card return w first and,
\* after w is answered Hard, Good or Easy, h; and add_card_to_front always
\* makes its card the next one served.
C21_RewindOrdering ==
    /\ FrontIsServedNext
    /\ (current_card # None /\ scheduler.last_answer # None) =>
          \A rating \in Ratings \ {"Again"} :
              LET flow == RewindFlow(rating)
              IN  /\ flow.rewound # None
                  /\ flow.served # None /\ flow.served[1].id = flow.w
                  /\ flow.after # None /\ flow.after[1].id = flow.h

\* C21 as it holds: the same when h and w are two cards; when the card on
\* screen is itself the card of the last answer (it lapsed and came back),
\* the rewind takes the held copy out of the queue, so the card is served
\* once and what follows is the card that was next before, or nothing.
C21_RewindOrderingOfTwoCards ==
    /\ FrontIsServedNext
    /\ (current_card # None /\ scheduler.last_answer # None) =>
          \A rating \in Ratings \ {"Again"} :
              LET flow == RewindFlow(rating)
              IN  /\ flow.rewound # None
                  /\ flow.served # None /\ flow.served[1].id = flow.w
                  /\ flow.h # flow.w => (flow.after # None /\ flow.after[1].id = flow.h)
                  /\ flow.h = flow.w => flow.after = next_card(scheduler).ret

\* C21 witness: the state of the test: two cards answered, the second one
\* Hard, and a third card on screen.
C21_Witness ==
    /\ current_card # None
    /\ scheduler.last_answer # None
    /\ scheduler.last_answer[1][2] = "Hard"
    /\ scheduler.last_answer[1][1] # current_card[1].id
    /\ scheduler.session_reviews_complete = 2
    /\ scheduler.hard_cards_this_session = <<scheduler.last_answer[1][1]>>

\* ---------------------------------------------------------------- C22
\* The displayed characters of the spans of a queue or of a line.
RECURSIVE DisplayedChars(_)
DisplayedChars(ss) ==
    IF ss = <<>> THEN 0 ELSE Len(Displayed(Head(ss))) + DisplayedChars(Tail(ss))

\* The step took displayed characters out of the queue and put them on the
\* current line.
ConsumesCharacter ==
    /\ DisplayedChars(processed_spans') < DisplayedChars(processed_spans)
    /\ lines' = lines
    /\ DisplayedChars(current_line_spans')
          = DisplayedChars(current_line_spans)
            + DisplayedChars(processed_spans) - DisplayedChars(processed_spans')

\* The step ended the current line: one more line entry, a fresh line.
FinalizesLine ==
    /\ Len(lines') = Len(lines) + 1
    /\ SubSeq(lines', 1, Len(lines)) = lines
    /\ current_line_spans' = <<>>
    /\ current_line_width' = 0

\* C22: every iteration of the Stage B loop that runs to its end (the loop
\* goes on, without an error or a panic) either takes at least one displayed
\* character out of the work queue and places it on the current line, or
\* finalizes a line.
C22_ForwardProgress ==
    [][(pc = "stageB" /\ processed_spans # <<>> /\ pc' = "stageB")
         => (ConsumesCharacter \/ FinalizesLine)]_vars

\* C22 witness: an iteration split "ak" at width 1: "a" was consumed onto the
\* line, the line was finalized, "k" is back at the front of the queue.
C22_Witness ==
    /\ pc = "stageB" /\ ~use_ruby
    /\ lines = <<(<<Plain(<<"a">>)>>)>>
    /\ current_line_spans = <<>>
    /\ processed_spans # <<>>
    /\ Head(processed_spans) = Plain(<<"k">>)

\* ---------------------------------------------------------------- C23
\* The first k characters of the span's displayed text measure at most
\* available_width.
PrefixFits(span, k, available_width) ==
    size_of_text_with_style(Take(Displayed(span), k), span.is_bold, span.is_italic)
        <= available_width

\* The sequential scan over all cut points: the largest k whose prefix fits.
MaximalFit(span, available_width) ==
    LET fitting == {k \in 0..Len(Displayed(span)) : PrefixFits(span, k, available_width)}
    IN  CHOOSE k \in fitting : \A j \in fitting : j <= k

\* Prefix widths are non-decreasing in the prefix length.
WidthsNonDecreasing(span) ==
    \A k \in 1..Len(Displayed(span)) :
        size_of_text_with_style(Take(Displayed(span), k - 1), span.is_bold, span.is_italic)
            <= size_of_text_with_style(Take(Displayed(span), k), span.is_bold, span.is_italic)

\* The span the loop is at has text to cut.
AtTextSpan == pc = "stageB" /\ processed_spans # <<>> /\ ~Span.is_newline

\* C23: for the displayed text of every span the loop comes to and every
\* available width, find_split_index returns the byte offset of the largest
\* character count whose prefix fits (0 when no character fits).
C23_MaximalFittingPrefix ==
    AtTextSpan =>
        \A available_width \in Widths :
            WidthsNonDecreasing(Span) =>
                find_split_index(Span, available_width, use_ruby)
                    = ByteOffset(Displayed(Span), MaximalFit(Span, available_width))

\* C23 as it holds: the same for every text that does not fit whole, which
\* is every call layout_text_binary makes; for a text that fits whole the
\* character count is past the last char_indices entry and the result is 0.
C23_MaximalProperPrefix ==
    AtTextSpan =>
        \A available_width \in Widths :
            WidthsNonDecreasing(Span) =>
                LET k == MaximalFit(Span, available_width)
                IN  find_split_index(Span, available_width, use_ruby)
                        = (IF k < Len(Displayed(Span))
                           THEN ByteOffset(Displayed(Span), k)
                           ELSE 0)

\* C23 witness: a bold "aa" (each character 2 wide) was cut at width 2 after
\* its first character.
C23_Witness ==
    /\ pc = "stageB" /\ ~use_ruby /\ max_width = 2
    /\ spans = <<[Plain(<<"a", "a">>) EXCEPT !.is_bold = TRUE]>>
    /\ lines = <<(<<[Plain(<<"a">>) EXCEPT !.is_bold = TRUE]>>)>>
    /\ processed_spans = <<[Plain(<<"a">>) EXCEPT !.is_bold = TRUE]>>

\* ---------------------------------------------------------------- C24
\* The loop is at a span that does not fit and of which a prefix fits: the
\* iteration splits span.text at SplitByteIndex.
AtSplit == AtTextSpan /\ SpanWidth > SpaceLeft /\ SplitByteIndex > 0

\* C24: whenever Stage B splits a span, with use_ruby set or not, the byte
\* offset it applies to span.text is a character boundary of span.text
\* within its length.
C24_SplitAtCharBoundary ==
    AtSplit => IsCharBoundary(Span.text, SplitByteIndex)

\* ---------------------------------------------------------------- C25
\* The two halves a split step leaves: the last span of the line it
\* finalized and the span it put back at the front of the queue.
FitSpan == lines'[Len(lines')][Len(lines'[Len(lines')])]
Remainder == Head(processed_spans')

SameFlags(a, b) ==
    /\ a.is_bold = b.is_bold
    /\ a.is_italic = b.is_italic
    /\ a.is_ruby_base = b.is_ruby_base
    /\ a.new_text_block = b.new_text_block
    /\ a.is_newline = b.is_newline

\* C25: when a span is split, the fits sub-span displays exactly the prefix
\* that was measured to fit and the remainder displays exactly the rest (in
\* ruby mode, of the ruby text), and both keep the flags of the span.
C25_SplitSlicesDisplayedText ==
    [][(AtSplit /\ pc' = "stageB") =>
          LET k == MaximalFit(Span, SpaceLeft)
              text == Displayed(Span)
          IN  /\ Displayed(FitSpan) = SubSeq(text, 1, k)
              /\ Displayed(Remainder) = SubSeq(text, k + 1, Len(text))
              /\ SameFlags(FitSpan, Span)
              /\ SameFlags(Remainder, Span)]_vars

\* ---------------------------------------------------------------- C26
\* The step finalized a line because the span the loop was at did not fit.
WrapsLine == AtTextSpan /\ SpanWidth > SpaceLeft /\ pc' = "stageB"

\* The line the step finalized and the space left on it.
WrappedLine == lines'[Len(lines')]
SpaceLeftOn(line) ==
    IF max_width >= LineWidth(line) THEN max_width - LineWidth(line) ELSE 0

\* The first displayed character of the text that starts the next line.
NextCharWidth ==
    size_of_text_with_style(Take(Displayed(Remainder), 1),
                            Remainder.is_bold, Remainder.is_italic)

\* C26: a line finalized because the next span did not fit whole is filled
\* maximally: the text that starts the following line has a first displayed
\* character, and it is wider than the space left on the finalized line.
C26_GreedyPacking ==
    [][WrapsLine =>
          /\ Displayed(Remainder) # <<>>
          /\ NextCharWidth > SpaceLeftOn(WrappedLine)]_vars

\* C26 witness: at width 2 the line holding "a" took the "a" of "ak" and
\* was finalized full; "k" (2 wide) starts the next line.
C26_Witness ==
    /\ pc = "stageB" /\ max_width = 2
    /\ spans = <<Plain(<<"a">>), Plain(<<"a", "k">>)>>
    /\ lines = <<(<<Plain(<<"a">>), Plain(<<"a">>)>>)>>
    /\ current_line_spans = <<>>
    /\ processed_spans = <<Plain(<<"k">>)>>

\* ---------------------------------------------------------------- C27
NoNewline(text) == \A i \in 1..Len(text) : text[i] # "\n"

\* The text a queue stands for: a newline for a newline entry, the text of
\* a fragment otherwise.
RECURSIVE QueueText(_)
QueueText(queue) ==
    IF queue = <<>> THEN <<>>
    ELSE (IF Head(queue).is_newline THEN <<"\n">> ELSE Head(queue).text)
         \o QueueText(Tail(queue))

\* The spans Stage B has before it or has placed.
StageBSpans ==
    {processed_spans[i] : i \in 1..Len(processed_spans)}
    \cup {current_line_spans[i] : i \in 1..Len(current_line_spans)}
    \cup UNION {{lines[i][j] : j \in 1..Len(lines[i])} : i \in 1..Len(lines)}

\* C27: the queue Stage A builds has a newline entry with empty text for
\* every embedded newline and a fragment without newline, not marked
\* is_newline, for every non-empty part, in the order of the input; and,
\* with use_ruby set or not, no text Stage B measures or places contains a
\* newline character.
C27_NoNewlineInStageB ==
    /\ LET queue == Stage1(spans)
       IN  /\ QueueText(queue) = InputText(spans)
           /\ \A i \in 1..Len(queue) :
                 IF queue[i].is_newline THEN queue[i].text = <<>>
                 ELSE queue[i].text # <<>> /\ NoNewline(queue[i].text)
    /\ pc = "stageB" =>
          \A span \in StageBSpans : ~span.is_newline => NoNewline(Displayed(span))

\* ---------------------------------------------------------------- C28
\* The spans of the lines a draw_layout call drew, in drawing order.
RECURSIVE SpansDrawn(_, _)
SpansDrawn(layout, drawn) ==
    IF drawn = <<>> THEN <<>>
    ELSE layout.lines[Head(drawn).line] \o SpansDrawn(layout, Tail(drawn))

\* The texts layout_text_binary measures for the spans in mode r; an empty
\* text makes no segment.
RECURSIVE MeasuredTexts(_, _)
MeasuredTexts(ss, r) ==
    IF ss = <<>> THEN <<>>
    ELSE (IF text_to_use(Head(ss), r) # <<>> THEN <<text_to_use(Head(ss), r)>> ELSE <<>>)
         \o MeasuredTexts(Tail(ss), r)

\* The width of what was drawn at y.
RECURSIVE DrawnWidthAt(_, _)
DrawnWidthAt(segments, y) ==
    IF segments = <<>> THEN 0
    ELSE (IF Head(segments).y = y THEN size_of(Head(segments).text, Head(segments).style) ELSE 0)
         + DrawnWidthAt(Tail(segments), y)

\* C28: for every span of a drawn layout and every mode r, the text
\* draw_layout draws with show_ruby = r is the text layout_text_binary
\* measures with use_ruby = r; a call that returns Ok has drawn exactly
\* those texts, and when the layout was made in mode r with the font in the
\* same style, every drawn line is as wide as it was laid out.
C28_DrawsWhatWasMeasured ==
    draw_call # None =>
        LET call == draw_call[1]
            r == call.show_ruby
            drawn == SpansDrawn(call.layout, call.lines_drawn)
        IN  /\ \A i \in 1..Len(drawn) : text_to_draw(drawn[i], r) = text_to_use(drawn[i], r)
            /\ call.result = "Ok" =>
                  /\ [i \in 1..Len(call.segments) |-> call.segments[i].text]
                        = MeasuredTexts(drawn, r)
                  /\ (r = use_ruby /\ call.style_before = {}) =>
                        \A k \in 1..Len(call.lines_drawn) :
                            DrawnWidthAt(call.segments, call.lines_drawn[k].y)
                                = LineWidth(call.layout.lines[call.lines_drawn[k].line])

\* ---------------------------------------------------------------- C29
\* The base texts of a layout's spans, line after line.
RECURSIVE BaseText(_)
BaseText(ls) ==
    IF ls = <<>> THEN <<>> ELSE InputText(Head(ls)) \o BaseText(Tail(ls))

\* The cached layout of a call is one of the field the call lays out: it
\* holds that field's text, and it is not the layout cached before.
FromField(layout, call) ==
    /\ fields # None
    /\ layout # StaleLayout
    /\ BaseText(layout.lines) = RemoveNewlines(InputText(fields[FieldOf(call)]))

\* C29: after load_card_layouts returns, each of the six cached layouts is
\* absent or was computed from the front or back field of the card's note;
\* no layout of the card shown before remains cached.
C29_CacheFollowsCard ==
    pc = "loaded" =>
        \A call \in CardLayoutCalls :
            card_layouts[call] = None \/ FromField(card_layouts[call][1], call)

\* ---------------------------------------------------------------- C30
\* C30: under any sequence of reveal, rate, rewind and ruby-key inputs,
\* every layout a frame of the studying scene passes to draw_layout with
\* show_ruby = r (a card layout, the hint layout, the deck-complete layout)
\* was made by layout_text_binary with use_ruby = r.
C30_LayoutsModeSpecific ==
    \A i \in 1..Len(draw_studying_scene) :
        draw_studying_scene[i].use_ruby = draw_studying_scene[i].show_ruby

\* ---------------------------------------------------------------- C31
\* C31: with the answer shown, a face button of the controller rates the
\* card on screen as the hint says (A Good, B Again, X Easy, Y Hard): the
\* scheduler after the press is the one after that answer and the next
\* card's pop; after B the card is back in the queue and
\* session_reviews_complete is unchanged.
C31_ButtonsRateAsHinted ==
    [][\A button \in FaceButtons :
          RateButton(button) =>
              scheduler' = next_card(Answered(HintedRating(button))).self]_vars

\* ---------------------------------------------------------------- C32
\* C32: under any sequence of up, down and select inputs of the keyboard
\* and the controller, no input panics, the empty deck list included, and
\* selected_index is below the number of decks whenever there are decks.
C32_NavigationStaysInRange ==
    /\ pc # "panicked"
    /\ (game_state.scene = "DeckSelection" /\ game_state.decks > 0)
          => game_state.selected_index < game_state.decks

\* ---------------------------------------------------------------- C33
\* The number of places a card of the deck is in: its entries in the review
\* queue, and the screen.
Places(id) ==
    Count(scheduler.review_queue, id)
        + (IF current_card # None /\ current_card[1].id = id THEN 1 ELSE 0)

\* C33: after any sequence of reveal, rate and rewind inputs every card of
\* the session is in at most one place, the review queue (once) or the
\* screen, the others being completed: session_reviews_complete + the queue
\* length + (1 if a card is on screen) = session_total.
C33_SessionConservation ==
    /\ scheduler.session_reviews_complete + Len(scheduler.review_queue)
          + (IF current_card # None THEN 1 ELSE 0) = scheduler.session_total
    /\ \A id \in DeckIds : Places(id) <= 1

\* C33 witness: a card is completed, a lapsed card waits in the queue, an
\* answer was rewound and a card is on screen.
C33_Witness ==
    /\ current_card # None
    /\ scheduler.last_answer = None
    /\ scheduler.session_reviews_complete = 1
    /\ \E i \in 1..Len(scheduler.review_queue) :
          LET id == scheduler.review_queue[i]
          IN  scheduler.cards[id].lapses > LoadedFields(id).lapses

\* ---------------------------------------------------------------- C34
\* C34: rewind_last_answer called with no answer given since creation or
\* since the last rewind returns None and leaves the scheduler as it is:
\* the review queue, session_reviews_complete, the hard cards and every
\* card.  Checked on every scheduler the handlers reach, and on each of
\* them after one rewind.
C34_RewindSingleLevel ==
    LET once == rewind_last_answer(scheduler)
        twice == rewind_last_answer(once.self)
    IN  /\ once.self.last_answer = None
        /\ twice.ret = None /\ twice.self = once.self
        /\ scheduler.last_answer = None =>
               (once.ret = None /\ once.self = scheduler)

\* C34 witness: an answer was rewound and none given since, with a card
\* completed, a hard card recorded and cards waiting in the queue.
C34_Witness ==
    /\ scheduler.last_answer = None
    /\ scheduler.session_reviews_complete >= 1
    /\ scheduler.hard_cards_this_session # <<>>
    /\ scheduler.review_queue # <<>>

\* ---------------------------------------------------------------- C35
\* C35: after any sequence of inputs, a rewind pressed after the last card
\* was answered included, is_done holds only while there is no current
\* card, so that the deck-complete layout is never drawn over a card.
C35_DoneOnlyWithoutCard ==
    is_done => current_card = None

\* ---------------------------------------------------------------- C36
\* The step answers the card `id` with `rating`: the scheduler after it is
\* the one answer_card and the pop of the next card leave.
AnswersCard(id, rating) ==
    scheduler' = next_card(answer_card(scheduler, id, rating)).self

\* The step loads a card: the next card or the rewound card is on screen.
LoadsCard == (StartStudying \/ RateCard \/ Rewind) /\ current_card' # None

\* C36: answer_card is called only with the answer revealed and on the
\* current card, and every card load, of the next card or of the rewound
\* card, resets is_answer_revealed to false, scroll_offset to 0 and
\* hint_layout to none.
C36_RatedOnlyWhenRevealed ==
    [][/\ \A id \in DeckIds, rating \in Ratings :
             AnswersCard(id, rating) =>
                 /\ is_answer_revealed
                 /\ current_card # None /\ current_card[1].id = id
       /\ LoadsCard =>
             (~is_answer_revealed' /\ scroll_offset' = 0 /\ hint_layout' = None)]_vars

\* C36 witness: a card was answered and the card loaded after it is on
\* screen with its answer hidden, unscrolled and without a hint.
C36_Witness ==
    /\ scheduler.last_answer # None
    /\ current_card # None
    /\ ~is_answer_revealed /\ scroll_offset = 0 /\ hint_layout = None

\* ---------------------------------------------------------------- C37
\* The places of the Complete and of the Progress messages among the
\* messages the loader sent.
Completes == {i \in 1..Len(channel.sent) : channel.sent[i].type = "Complete"}
Progresses == {i \in 1..Len(channel.sent) : channel.sent[i].type = "Progress"}

\* At most one Complete was sent, nothing after it, and the Progress
\* values do not decrease.
OrderedMessages ==
    /\ Cardinality(Completes) <= 1
    /\ \A i \in Completes : i = Len(channel.sent)
    /\ \A i, j \in Progresses :
          i < j => channel.sent[i].progress <= channel.sent[j].progress

\* C37: the loader thread sends exactly one Complete message, on the
\* success path and on every failure path, and no message after it; the
\* Progress messages precede it with non-decreasing values.  Once the
\* thread has ended, exactly one Complete was sent.
C37_ExactlyOneComplete ==
    /\ OrderedMessages
    /\ loader.pc \in {"finished", "panicked"} => Cardinality(Completes) = 1

\* C37 as it holds: the same for a thread that returns from load_apkg; a
\* thread whose receiver was dropped panics at its next send and sends no
\* Complete, and that is the only way it ends without one.
C37_ExactlyOneCompleteWhileReceived ==
    /\ OrderedMessages
    /\ loader.pc = "finished" => Cardinality(Completes) = 1
    /\ loader.pc = "panicked" => (~channel.rx_alive /\ Completes = {})

\* C37 witness: a failure path after a progress report: the database was
\* extracted, the notes could not be loaded, and the thread ended having
\* sent the progress and then the error.
C37_Witness ==
    /\ loader.pc = "finished"
    /\ channel.sent = <<Progress(25), Complete("Err")>>

====
